---- MODULE Spec2Model ----
(***************************************************************************)
(* The video-generation Job ("videos" row) of demoship and the handlers    *)
(* that write it: the pipeline run started at creation (processVideo of    *)
(* app/api/videos/route.ts), the retry endpoint, the pipeline run the      *)
(* retry endpoint triggers (processVideo of app/api/videos/process/        *)
(* route.ts) and the render-complete webhook.  Every await of a handler is *)
(* a point where the other handlers may run, so each action below is the   *)
(* code up to one write of a row.  A call that touches no row (GitHub,     *)
(* Claude, ElevenLabs, storage) is one action with the write that follows  *)
(* it in the retry-triggered run, and the retry endpoint's update is one   *)
(* action with the detached request it sends right after.                  *)
(***************************************************************************)
EXTENDS Integers, Sequences, FiniteSets, TLC

\* ------------------------------------------------------------------ bounds
MaxRefs == 2        \* linked change requests of the Job (1..MaxRefs)
MaxRetries == 2     \* retry requests issued over the Job's life
MaxShots == 1       \* screenshots a comment scan / a capture can return
MaxUrls == 2        \* length of the free-form URL lists a submission carries
MaxChecks == 12     \* rate-limit checks made in one behaviour
MaxAdvances == 2    \* times the clock moves on between checks
MaxCreates == 2     \* credential-creation requests, possibly concurrent
MaxRevokes == 2     \* revocation requests
MaxValidations == 1 \* validations of a bearer credential
MaxComments == 2    \* discussion comments the references carry together
MaxCaptured == 7    \* images one answer of the capture collaborator holds
MaxUploads == 2     \* recording uploads, possibly concurrent
MaxDeletes == 1     \* recording deletions
MaxLines == 600     \* lines of the patch GitHub returns for a file
MaxViews == 3       \* public fetches of the Job

\* ------------------------------------------------------------- data model
NULL == "null"      \* SQL NULL of a TEXT / TIMESTAMP column
NullInt == -1       \* SQL NULL of an INTEGER column

VideoStatus == {"pending", "analyzing", "generating_audio", "rendering",
                "complete", "failed"}

\* What fetchPRData returns for the k-th submitted change request: every
\* request has its own title and its own diff stats (description, author,
\* files and commits travel with the title and are not read by the Job's
\* status logic).
PRTitles == <<"Add login", "Fix logout", "Refactor session", "Update docs">>

GitHubPR(k) ==
    [title |-> PRTitles[k], filesChanged |-> k, additions |-> 2 * k + 1,
     deletions |-> k - 1]

\* The unifiedTitle of analyzeMultiplePRs' answer.
UnifiedTitle == "unified-title"

RunIds == 0..MaxRetries      \* run 0 is started by creation, run q by retry q
RetryIds == 1..MaxRetries

VARIABLES
    video,              \* the videos row
    video_prs,          \* the video_prs rows, indexed 1..n in insertion order
    pr_screenshots,     \* number of pr_screenshots rows of the Job
    remotionServerUrl,  \* is process.env.REMOTION_SERVER_URL set
    runs,               \* the pipeline runs: position and locals
    retries,            \* the retry requests: each one's position
    dispatched,         \* render jobs the render collaborator accepted
    delivered,          \* completion webhooks delivered so far
    webhookUrl,         \* the result webhook URL the Job's run was given
    notifications,      \* the result notifications sent to it, in order
    changeTypes,        \* the changeType values the narrative answers carry
    webhookSecret,      \* process.env.REMOTION_WEBHOOK_SECRET
    request,            \* the HTTP request an endpoint is handling
    response,           \* the HTTP status it answered (0: none yet)
    inserted,           \* what a submission inserted and started
    rateLimitStore,     \* the rate limiter's map: keyId -> count, resetAt
    now,                \* Date.now()
    ticks,              \* how many times the clock has moved on
    history,            \* per credential: the checks made, as the caller saw them
    api_keys,           \* the api_keys rows
    keyRequests,        \* the credential requests in flight
    media,              \* the screenshot collection of a run
    recordings,         \* the screen recordings: rows, blobs, requests
    prFile,             \* a changed file: its patch, as fetched and as shown
    refRun,             \* a run over the reference rows as the store returns them
    views               \* the public fetches of the Job and its view_count

\* The Job and the handlers that write it.
pipelineVars == <<video, video_prs, pr_screenshots, remotionServerUrl, runs,
                  retries, dispatched, delivered>>

\* What the run of a Job is given from outside.
jobEnv == <<webhookUrl, notifications, changeTypes, webhookSecret>>

\* One request and its answer.
ingestVars == <<request, response, inserted>>

\* The rate limiter.
limiterVars == <<rateLimitStore, now, ticks, history>>

\* The credentials.
keyVars == <<api_keys, keyRequests>>

\* The collected and uploaded assets.
assetVars == <<media, recordings, prFile, refRun, views>>

\* The state the handlers of the modelled Job never write.
others == <<jobEnv, ingestVars, limiterVars, keyVars, assetVars>>

vars == <<pipelineVars, others>>

NewVideo ==
    [status |-> "pending", error_message |-> NULL,
     pr_title |-> NULL, pr_files_changed |-> NullInt,
     pr_additions |-> NullInt, pr_deletions |-> NullInt,
     total_files_changed |-> NullInt, total_additions |-> NullInt,
     total_deletions |-> NullInt, screenshot_count |-> 0,
     ai_summary |-> NULL, ai_script |-> NULL, change_type |-> NULL,
     audio_url |-> NULL, video_url |-> NULL, thumbnail_url |-> NULL,
     completed_at |-> NULL]

NewVideoPR(index) ==
    [display_order |-> index - 1, pr_title |-> NULL,
     pr_files_changed |-> NullInt, pr_additions |-> NullInt,
     pr_deletions |-> NullInt]

IdleRun ==
    [pc |-> "idle", kind |-> "none", isMultiPR |-> FALSE,
     prDataResults |-> << >>, screenshots |-> NullInt, i |-> 0,
     totals |-> FALSE, analysis |-> "none", changeType |-> NULL,
     displayTitle |-> NULL, err |-> << >>]

\* Mutant: the catch block records a fixed text instead of the message.
ErrorMessage_Unknown(error) == "Unknown error"

\* error instanceof Error ? error.message : "Unknown error"
ErrorMessage(error) ==
    IF error.isError THEN error.message ELSE "Unknown error"

Thrown(message) == [isError |-> TRUE, message |-> message]

RECURSIVE SumOf(_, _)
\* prDataResults.reduce((sum, pr) => sum + pr.<field>, 0)
SumOf(results, field) ==
    IF results = << >> THEN 0
    ELSE results[1][field] + SumOf(Tail(results), field)

NoRequest == [path |-> "none"]
NoResponse == [status |-> 0, error |-> NULL]
Reply(status, error) == [status |-> status, error |-> error]
Nothing == [videos |-> 0, video_prs |-> << >>, runs |-> 0]

\* A Job submitted in the browser: no result webhook, narrative answers with
\* a changeType of the enumeration, the render secret configured.
JobEnvIdle ==
    /\ webhookUrl = NULL
    /\ notifications = << >>
    /\ changeTypes = {"feature"}
    /\ webhookSecret = "s3cret"

IngestIdle ==
    /\ request = NoRequest
    /\ response = NoResponse
    /\ inserted = Nothing

LimiterIdle ==
    /\ rateLimitStore = << >>
    /\ now = 0
    /\ ticks = 0
    /\ history = << >>

KeysIdle ==
    /\ api_keys = << >>
    /\ keyRequests = << >>

AssetsIdle ==
    /\ media = << >>
    /\ recordings = << >>
    /\ prFile = << >>
    /\ refRun = << >>
    /\ views = << >>

\* The pipeline's variables where no Job is followed.
PipelineIdle ==
    /\ video = NewVideo
    /\ video_prs = << >>
    /\ pr_screenshots = 0
    /\ remotionServerUrl = FALSE
    /\ runs = [r \in RunIds |-> IdleRun]
    /\ retries = [q \in RetryIds |-> "idle"]
    /\ dispatched = 0
    /\ delivered = 0

\* No endpoint other than the Job's is in use.
OthersIdle == JobEnvIdle /\ IngestIdle /\ LimiterIdle /\ KeysIdle /\ AssetsIdle

\* POST /api/videos: the row is inserted pending, one video_prs row per URL
\* with display_order = index, and processVideo is started without await.
Init ==
    /\ OthersIdle
    /\ \E n \in 1..MaxRefs : video_prs = [k \in 1..n |-> NewVideoPR(k)]
    /\ remotionServerUrl \in BOOLEAN
    /\ video = NewVideo
    /\ pr_screenshots = 0
    /\ runs = [r \in RunIds |->
                 IF r = 0 THEN [IdleRun EXCEPT !.pc = "load", !.kind = "create"]
                 ELSE IdleRun]
    /\ retries = [q \in RetryIds |-> "idle"]
    /\ dispatched = 0
    /\ delivered = 0

\* ------------------------------------------------------------ small helpers
\* videoPRs.sort((a, b) => a.display_order - b.display_order): the row indices
\* in ascending display_order.
SortedPRs(rows) ==
    [k \in 1..Len(rows) |->
        CHOOSE j \in 1..Len(rows) :
            Cardinality({m \in 1..Len(rows) :
                rows[m].display_order < rows[j].display_order}) = k - 1]

Step(r, pc) == runs' = [runs EXCEPT ![r].pc = pc]

\* The function returns: its locals are gone.
Return(r) == runs' = [runs EXCEPT ![r] = [IdleRun EXCEPT !.pc = "done"]]

Raise(r, message) ==
    runs' = [runs EXCEPT ![r].pc = "catch", ![r].err = <<Thrown(message)>>]


\* ------------------------- processVideo of app/api/videos/route.ts (run 0)
\* select("*, video_prs(*)"): the run learns how many references are linked.
ProcessVideo_Load(r) ==
    /\ runs[r].kind = "create" /\ runs[r].pc = "load"
    /\ runs' = [runs EXCEPT ![r].pc = "setAnalyzing",
                            ![r].isMultiPR = Len(video_prs) > 1]
    /\ UNCHANGED others
    /\ UNCHANGED <<video, video_prs, pr_screenshots, remotionServerUrl,
                   retries, dispatched, delivered>>

ProcessVideo_SetAnalyzing(r) ==
    /\ runs[r].kind = "create" /\ runs[r].pc = "setAnalyzing"
    /\ video' = [video EXCEPT !.status = "analyzing"]
    /\ Step(r, "fetch")
    /\ UNCHANGED others
    /\ UNCHANGED <<video_prs, pr_screenshots, remotionServerUrl,
                   retries, dispatched, delivered>>

\* The rejection of fetchPRComments (lib/github.ts, not in the sources at
\* hand): a failed comment fetch rejects, as a failed metadata fetch does.
FetchPRComments_Error == "Failed to fetch PR comments"

\* Mutant: the references are fetched and stored one after the other, so the
\* rows of the references before the failing one are written already.
ProcessVideo_Fetch_Partial(r) ==
    /\ runs[r].kind = "create" /\ runs[r].pc = "fetch"
    /\ \/ /\ \E shots \in 0..MaxShots :
               runs' = [runs EXCEPT
                   ![r].prDataResults =
                       [k \in 1..Len(video_prs) |-> GitHubPR(SortedPRs(video_prs)[k])],
                   ![r].screenshots = shots,
                   ![r].i = 1,
                   ![r].pc = IF shots = 0 /\ remotionServerUrl
                             THEN "capture" ELSE "updatePRs"]
          /\ video_prs' = video_prs
       \/ \E k \in 1..Len(video_prs) :
            /\ Raise(r, "Failed to fetch PR")
            /\ video_prs' = [j \in 1..Len(video_prs) |->
                   IF j < k THEN [video_prs[j] EXCEPT
                                     !.pr_title = GitHubPR(j).title]
                   ELSE video_prs[j]]
    /\ UNCHANGED others
    /\ UNCHANGED <<video, pr_screenshots, remotionServerUrl,
                   retries, dispatched, delivered>>

\* Promise.all over fetchPRData and fetchPRComments of every reference, then
\* parseScreenshotsFromComments: one failed fetch, of the metadata or of the
\* comments of any reference k, rejects the whole group.
ProcessVideo_Fetch(r) ==
    /\ runs[r].kind = "create" /\ runs[r].pc = "fetch"
    /\ \/ \E shots \in 0..MaxShots :
            runs' = [runs EXCEPT
                ![r].prDataResults =
                    [k \in 1..Len(video_prs) |-> GitHubPR(SortedPRs(video_prs)[k])],
                ![r].screenshots = shots,
                ![r].i = 1,
                ![r].pc = IF shots = 0 /\ remotionServerUrl
                          THEN "capture" ELSE "updatePRs"]
       \/ \E k \in 1..Len(video_prs) :
            \/ Raise(r, "Failed to fetch PR")
            \/ Raise(r, FetchPRComments_Error)
    /\ UNCHANGED others
    /\ UNCHANGED <<video, video_prs, pr_screenshots, remotionServerUrl,
                   retries, dispatched, delivered>>

\* The auto-capture fallback: no preview URL, a failed capture and a failed
\* upload all leave zero screenshots; none of them fails the run.
ProcessVideo_Capture(r) ==
    /\ runs[r].kind = "create" /\ runs[r].pc = "capture"
    /\ \E captured \in 0..MaxShots :
          runs' = [runs EXCEPT ![r].screenshots = captured,
                               ![r].pc = "updatePRs"]
    /\ UNCHANGED others
    /\ UNCHANGED <<video, video_prs, pr_screenshots, remotionServerUrl,
                   retries, dispatched, delivered>>

\* One turn of the loop that writes prDataResults[i] to videoPRs[i].
ProcessVideo_UpdatePR(r) ==
    /\ runs[r].kind = "create" /\ runs[r].pc = "updatePRs"
    /\ LET i == runs[r].i
           row == SortedPRs(video_prs)[i]
           prData == runs[r].prDataResults[i]
       IN /\ video_prs' = [video_prs EXCEPT
                  ![row].pr_title = prData.title,
                  ![row].pr_files_changed = prData.filesChanged,
                  ![row].pr_additions = prData.additions,
                  ![row].pr_deletions = prData.deletions]
          /\ runs' = [runs EXCEPT
                  ![r].i = i + 1,
                  ![r].pc = IF i < Len(video_prs)
                            THEN "updatePRs" ELSE "updateVideo"]
    /\ UNCHANGED others
    /\ UNCHANGED <<video, pr_screenshots, remotionServerUrl,
                   retries, dispatched, delivered>>

\* The primary item's metadata, the totals and screenshot_count in one update.
ProcessVideo_UpdateVideo(r) ==
    /\ runs[r].kind = "create" /\ runs[r].pc = "updateVideo"
    /\ LET results == runs[r].prDataResults
           firstPRData == results[1]
       IN video' = [video EXCEPT
                  !.pr_title = firstPRData.title,
                  !.pr_files_changed = firstPRData.filesChanged,
                  !.pr_additions = firstPRData.additions,
                  !.pr_deletions = firstPRData.deletions,
                  !.total_files_changed = SumOf(results, "filesChanged"),
                  !.total_additions = SumOf(results, "additions"),
                  !.total_deletions = SumOf(results, "deletions"),
                  !.screenshot_count = runs[r].screenshots]
    /\ runs' = [runs EXCEPT ![r].totals = TRUE,
                            ![r].pc = IF runs[r].screenshots > 0
                                      THEN "storeScreenshots" ELSE "analyze"]
    /\ UNCHANGED others
    /\ UNCHANGED <<video_prs, pr_screenshots, remotionServerUrl,
                   retries, dispatched, delivered>>

\* Mutant: a failed insert of the screenshot rows is thrown.
ProcessVideo_StoreScreenshots_Throws(r) ==
    /\ runs[r].kind = "create" /\ runs[r].pc = "storeScreenshots"
    /\ \/ /\ pr_screenshots' = pr_screenshots + runs[r].screenshots
          /\ Step(r, "analyze")
       \/ /\ pr_screenshots' = pr_screenshots
          /\ Raise(r, "Failed to store screenshots")
    /\ UNCHANGED others
    /\ UNCHANGED <<video, video_prs, remotionServerUrl,
                   retries, dispatched, delivered>>

\* insert into pr_screenshots; an insert error is logged and skipped.
ProcessVideo_StoreScreenshots(r) ==
    /\ runs[r].kind = "create" /\ runs[r].pc = "storeScreenshots"
    /\ \/ pr_screenshots' = pr_screenshots + runs[r].screenshots
       \/ pr_screenshots' = pr_screenshots
    /\ Step(r, "analyze")
    /\ UNCHANGED others
    /\ UNCHANGED <<video, video_prs, remotionServerUrl,
                   retries, dispatched, delivered>>

\* analyzeMultiplePRs when isMultiPR, analyzePR otherwise; both throw on a
\* response without a JSON block and return result.changeType as it came.
ProcessVideo_Analyze(r) ==
    /\ runs[r].kind = "create" /\ runs[r].pc = "analyze"
    /\ \/ \E changeType \in changeTypes :
          runs' = [runs EXCEPT
              ![r].analysis = IF runs[r].isMultiPR THEN "multi" ELSE "single",
              ![r].changeType = changeType,
              ![r].displayTitle = IF runs[r].isMultiPR THEN UnifiedTitle
                                  ELSE runs[r].prDataResults[1].title,
              ![r].pc = IF runs[r].isMultiPR THEN "setTitle" ELSE "saveAnalysis"]
       \/ Raise(r, "Could not parse JSON from Claude response")
    /\ UNCHANGED others
    /\ UNCHANGED <<video, video_prs, pr_screenshots, remotionServerUrl,
                   retries, dispatched, delivered>>

\* update({ pr_title: displayTitle }) of the multi-PR branch.
ProcessVideo_SetTitle(r) ==
    /\ runs[r].kind = "create" /\ runs[r].pc = "setTitle"
    /\ video' = [video EXCEPT !.pr_title = runs[r].displayTitle]
    /\ Step(r, "saveAnalysis")
    /\ UNCHANGED others
    /\ UNCHANGED <<video_prs, pr_screenshots, remotionServerUrl,
                   retries, dispatched, delivered>>

\* Mutant: the narrative update jumps to rendering.
ProcessVideo_SaveAnalysis_Skips(r) ==
    /\ runs[r].kind = "create" /\ runs[r].pc = "saveAnalysis"
    /\ video' = [video EXCEPT !.ai_summary = "summary", !.ai_script = "script",
                           !.change_type = runs[r].changeType,
                           !.status = "rendering"]
    /\ Step(r, "audio")
    /\ UNCHANGED others
    /\ UNCHANGED <<video_prs, pr_screenshots, remotionServerUrl,
                   retries, dispatched, delivered>>

ProcessVideo_SaveAnalysis(r) ==
    /\ runs[r].kind = "create" /\ runs[r].pc = "saveAnalysis"
    /\ video' = [video EXCEPT !.ai_summary = "summary", !.ai_script = "script",
                           !.change_type = runs[r].changeType,
                           !.status = "generating_audio"]
    /\ Step(r, "audio")
    /\ UNCHANGED others
    /\ UNCHANGED <<video_prs, pr_screenshots, remotionServerUrl,
                   retries, dispatched, delivered>>

\* generateVoice, then the upload of the audio to storage; neither touches
\* the Job row.
ProcessVideo_Audio(r) ==
    /\ runs[r].kind = "create" /\ runs[r].pc = "audio"
    /\ \/ Step(r, "setRendering")
       \/ Raise(r, "ElevenLabs API error")
       \/ Raise(r, "Failed to upload audio")
    /\ UNCHANGED others
    /\ UNCHANGED <<video, video_prs, pr_screenshots, remotionServerUrl,
                   retries, dispatched, delivered>>

\* Mutant: the run returns once the audio location is written.
ProcessVideo_SetRendering_Returns(r) ==
    /\ runs[r].kind = "create" /\ runs[r].pc = "setRendering"
    /\ video' = [video EXCEPT !.audio_url = "audio", !.status = "rendering"]
    /\ Return(r)
    /\ UNCHANGED others
    /\ UNCHANGED <<video_prs, pr_screenshots, remotionServerUrl,
                   retries, dispatched, delivered>>

\* update({ audio_url, audio_duration_ms, status: "rendering" }), then the
\* branch on remotionServerUrl.
ProcessVideo_SetRendering(r) ==
    /\ runs[r].kind = "create" /\ runs[r].pc = "setRendering"
    /\ video' = [video EXCEPT !.audio_url = "audio", !.status = "rendering"]
    /\ Step(r, IF remotionServerUrl THEN "dispatch" ELSE "setComplete")
    /\ UNCHANGED others
    /\ UNCHANGED <<video_prs, pr_screenshots, remotionServerUrl,
                   retries, dispatched, delivered>>

\* Mutant: renderResponse.ok is not looked at, a rejected dispatch returns.
ProcessVideo_Dispatch_Ignores(r) ==
    /\ runs[r].kind = "create" /\ runs[r].pc = "dispatch"
    /\ \/ /\ dispatched' = dispatched + 1
          /\ Return(r)
       \/ /\ dispatched' = dispatched
          /\ Return(r)
    /\ UNCHANGED others
    /\ UNCHANGED <<video, video_prs, pr_screenshots, remotionServerUrl,
                   retries, delivered>>

\* Mutant: the run itself marks the Job complete once the dispatch is accepted.
ProcessVideo_Dispatch_Completes(r) ==
    /\ runs[r].kind = "create" /\ runs[r].pc = "dispatch"
    /\ \/ /\ dispatched' = dispatched + 1
          /\ video' = [video EXCEPT !.status = "complete",
                                    !.completed_at = "now"]
          /\ Return(r)
       \/ /\ dispatched' = dispatched
          /\ video' = video
          /\ Raise(r, "Failed to start render")
    /\ UNCHANGED others
    /\ UNCHANGED <<video_prs, pr_screenshots, remotionServerUrl,
                   retries, delivered>>

\* The screen-recording lookup and the POST to <remotion>/render: accepted,
\* or answered with a non-ok response, which throws.
ProcessVideo_Dispatch(r) ==
    /\ runs[r].kind = "create" /\ runs[r].pc = "dispatch"
    /\ \/ /\ dispatched' = dispatched + 1
          /\ Return(r)
       \/ /\ dispatched' = dispatched
          /\ Raise(r, "Failed to start render")
    /\ UNCHANGED others
    /\ UNCHANGED <<video, video_prs, pr_screenshots, remotionServerUrl,
                   retries, delivered>>

\* No remotion server configured: mark as complete without video.
ProcessVideo_SetComplete(r) ==
    /\ runs[r].kind = "create" /\ runs[r].pc = "setComplete"
    /\ video' = [video EXCEPT !.status = "complete", !.completed_at = "now"]
    /\ Return(r)
    /\ UNCHANGED others
    /\ UNCHANGED <<video_prs, pr_screenshots, remotionServerUrl,
                   retries, dispatched, delivered>>

\* Mutant: the catch block only logs the error.
ProcessVideo_Catch_LogsOnly(r) ==
    /\ runs[r].kind = "create" /\ runs[r].pc = "catch"
    /\ Return(r)
    /\ UNCHANGED others
    /\ UNCHANGED <<video, video_prs, pr_screenshots, remotionServerUrl,
                   retries, dispatched, delivered>>

\* The catch block.
ProcessVideo_Catch(r) ==
    /\ runs[r].kind = "create" /\ runs[r].pc = "catch"
    /\ video' = [video EXCEPT !.status = "failed",
                           !.error_message = ErrorMessage(runs[r].err[1])]
    /\ Return(r)
    /\ UNCHANGED others
    /\ UNCHANGED <<video_prs, pr_screenshots, remotionServerUrl,
                   retries, dispatched, delivered>>

ProcessVideo(r) ==
    \/ ProcessVideo_Load(r)
    \/ ProcessVideo_SetAnalyzing(r)
    \/ ProcessVideo_Fetch(r)
    \/ ProcessVideo_Capture(r)
    \/ ProcessVideo_UpdatePR(r)
    \/ ProcessVideo_UpdateVideo(r)
    \/ ProcessVideo_StoreScreenshots(r)
    \/ ProcessVideo_Analyze(r)
    \/ ProcessVideo_SetTitle(r)
    \/ ProcessVideo_SaveAnalysis(r)
    \/ ProcessVideo_Audio(r)
    \/ ProcessVideo_SetRendering(r)
    \/ ProcessVideo_Dispatch(r)
    \/ ProcessVideo_SetComplete(r)
    \/ ProcessVideo_Catch(r)

\* --------------------- processVideo of app/api/videos/process/route.ts
Reprocess_SetAnalyzing(r) ==
    /\ runs[r].kind = "process" /\ runs[r].pc = "setAnalyzing"
    /\ video' = [video EXCEPT !.status = "analyzing"]
    /\ Step(r, "fetch")
    /\ UNCHANGED others
    /\ UNCHANGED <<video_prs, pr_screenshots, remotionServerUrl,
                   retries, dispatched, delivered>>

\* fetchPRData(video.pr_owner, video.pr_repo, video.pr_number), the primary
\* reference alone and no comments, then "Update with PR metadata": the pr_*
\* columns, no totals, no video_prs rows.
Reprocess_Fetch(r) ==
    /\ runs[r].kind = "process" /\ runs[r].pc = "fetch"
    /\ \/ LET prData == GitHubPR(1)
          IN /\ video' = [video EXCEPT
                     !.pr_title = prData.title,
                     !.pr_files_changed = prData.filesChanged,
                     !.pr_additions = prData.additions,
                     !.pr_deletions = prData.deletions]
             /\ runs' = [runs EXCEPT ![r].prDataResults = <<prData>>,
                                     ![r].pc = "analyze"]
       \/ /\ Raise(r, "Failed to fetch PR")
          /\ video' = video
    /\ UNCHANGED others
    /\ UNCHANGED <<video_prs, pr_screenshots, remotionServerUrl,
                   retries, dispatched, delivered>>

\* analyzePR(prData), whatever the number of linked references, then the
\* update that stores the narrative and sets generating_audio.
Reprocess_Analyze(r) ==
    /\ runs[r].kind = "process" /\ runs[r].pc = "analyze"
    /\ \/ \E changeType \in changeTypes :
          /\ video' = [video EXCEPT !.ai_summary = "summary",
                                    !.ai_script = "script",
                                    !.change_type = changeType,
                                    !.status = "generating_audio"]
          /\ runs' = [runs EXCEPT
                 ![r].analysis = "single",
                 ![r].changeType = changeType,
                 ![r].displayTitle = runs[r].prDataResults[1].title,
                 ![r].pc = "audio"]
       \/ /\ Raise(r, "Could not parse JSON from Claude response")
          /\ video' = video
    /\ UNCHANGED others
    /\ UNCHANGED <<video_prs, pr_screenshots, remotionServerUrl,
                   retries, dispatched, delivered>>

\* generateVoice and the upload of the audio, then the update that stores
\* audio_url and sets rendering.
Reprocess_Audio(r) ==
    /\ runs[r].kind = "process" /\ runs[r].pc = "audio"
    /\ \/ /\ video' = [video EXCEPT !.audio_url = "audio",
                                    !.status = "rendering"]
          /\ Step(r, IF remotionServerUrl THEN "dispatch" ELSE "setComplete")
       \/ /\ Raise(r, "ElevenLabs API error")
          /\ video' = video
       \/ /\ Raise(r, "Failed to upload audio")
          /\ video' = video
    /\ UNCHANGED others
    /\ UNCHANGED <<video_prs, pr_screenshots, remotionServerUrl,
                   retries, dispatched, delivered>>

Reprocess_Dispatch(r) ==
    /\ runs[r].kind = "process" /\ runs[r].pc = "dispatch"
    /\ \/ /\ dispatched' = dispatched + 1
          /\ Return(r)
       \/ /\ dispatched' = dispatched
          /\ Raise(r, "Failed to start render")
    /\ UNCHANGED others
    /\ UNCHANGED <<video, video_prs, pr_screenshots, remotionServerUrl,
                   retries, delivered>>

Reprocess_SetComplete(r) ==
    /\ runs[r].kind = "process" /\ runs[r].pc = "setComplete"
    /\ video' = [video EXCEPT !.status = "complete", !.completed_at = "now"]
    /\ Return(r)
    /\ UNCHANGED others
    /\ UNCHANGED <<video_prs, pr_screenshots, remotionServerUrl,
                   retries, dispatched, delivered>>

Reprocess_Catch(r) ==
    /\ runs[r].kind = "process" /\ runs[r].pc = "catch"
    /\ video' = [video EXCEPT !.status = "failed",
                           !.error_message = ErrorMessage(runs[r].err[1])]
    /\ Return(r)
    /\ UNCHANGED others
    /\ UNCHANGED <<video_prs, pr_screenshots, remotionServerUrl,
                   retries, dispatched, delivered>>

Reprocess(r) ==
    \/ Reprocess_SetAnalyzing(r)
    \/ Reprocess_Fetch(r)
    \/ Reprocess_Analyze(r)
    \/ Reprocess_Audio(r)
    \/ Reprocess_Dispatch(r)
    \/ Reprocess_SetComplete(r)
    \/ Reprocess_Catch(r)

\* POST /api/videos/process: starts processVideo(videoId) without awaiting it;
\* processVideo begins with the select of the videos row, of which it uses
\* the columns pr_owner, pr_repo and pr_number that no handler ever changes.
Process_POST(r) ==
    /\ runs[r].pc = "requested"
    /\ runs' = [runs EXCEPT ![r].pc = "setAnalyzing", ![r].kind = "process"]
    /\ UNCHANGED others
    /\ UNCHANGED <<video, video_prs, pr_screenshots, remotionServerUrl,
                   retries, dispatched, delivered>>

\* ------------------------------------------ POST /api/videos/[id]/retry
\* Mutant: a complete Job can be retried too.
RetryableStatuses_WithComplete == {"failed", "rendering", "complete"}

\* const retryableStatuses = ["failed", "rendering"]
RetryableStatuses == {"failed", "rendering"}

\* The select of the row and the check of its status: 400 when the status
\* read is not retryable.
Retry_Read(q) ==
    /\ retries[q] = "idle"
    /\ \A p \in RetryIds : p < q => retries[p] # "idle"
    /\ retries' = [retries EXCEPT
          ![q] = IF video.status \in RetryableStatuses
                 THEN "update" ELSE "rejected"]
    /\ UNCHANGED others
    /\ UNCHANGED <<video, video_prs, pr_screenshots, remotionServerUrl,
                   runs, dispatched, delivered>>

\* "Reset the video status": update({status: "pending", error_message: null}),
\* then the fire-and-forget fetch of /api/videos/process and the 200 response.
Retry_Update(q) ==
    /\ retries[q] = "update"
    /\ video' = [video EXCEPT !.status = "pending", !.error_message = NULL]
    /\ retries' = [retries EXCEPT ![q] = "accepted"]
    /\ runs' = [runs EXCEPT ![q].pc = "requested"]
    /\ UNCHANGED others
    /\ UNCHANGED <<video_prs, pr_screenshots, remotionServerUrl,
                   dispatched, delivered>>

\* ----------------------------------- POST /api/webhook/render-complete
\* The render collaborator reports the outcome of a render it accepted; the
\* handler updates the row whatever its current status.
RenderComplete(error) ==
    /\ delivered < dispatched
    /\ delivered' = delivered + 1
    /\ IF error # NULL
       THEN video' = [video EXCEPT !.status = "failed",
                                !.error_message = error]
       ELSE video' = [video EXCEPT !.video_url = "video",
                                !.thumbnail_url = "thumbnail",
                                !.status = "complete",
                                !.completed_at = "now"]
    /\ UNCHANGED others
    /\ UNCHANGED <<video_prs, pr_screenshots, remotionServerUrl,
                   runs, retries, dispatched>>

Next ==
    \/ \E r \in RunIds : ProcessVideo(r)
    \/ \E r \in RunIds : Reprocess(r)
    \/ \E r \in RunIds : Process_POST(r)
    \/ \E q \in RetryIds : Retry_Read(q)
    \/ \E q \in RetryIds : Retry_Update(q)
    \/ \E error \in {NULL, "Render failed"} : RenderComplete(error)

Spec == Init /\ [][Next]_vars

\* --------------------------------- the narrative collaborator's changeType
\* AIAnalysis.changeType as declared.
ChangeTypes == {"feature", "bugfix", "refactor", "docs", "other"}

\* What JSON.parse can give for changeType: a declared value, or any other
\* string (one stands for them).
ReturnedChangeTypes == {"docs", "chore"}

\* The creation of a Job whose collaborator is not held to the enumeration.
InitClassify ==
    /\ IngestIdle /\ LimiterIdle /\ KeysIdle /\ AssetsIdle
    /\ webhookUrl = NULL
    /\ notifications = << >>
    /\ changeTypes = ReturnedChangeTypes
    /\ webhookSecret = "s3cret"
    /\ \E n \in 1..MaxRefs : video_prs = [k \in 1..n |-> NewVideoPR(k)]
    /\ remotionServerUrl \in BOOLEAN
    /\ video = NewVideo
    /\ pr_screenshots = 0
    /\ runs = [r \in RunIds |->
                 IF r = 0 THEN [IdleRun EXCEPT !.pc = "load", !.kind = "create"]
                 ELSE IdleRun]
    /\ retries = [q \in RetryIds |-> "idle"]
    /\ dispatched = 0
    /\ delivered = 0

SpecClassify == InitClassify /\ [][Next]_vars

\* ------------- processVideoWithWebhook of app/api/v1/videos/route.ts
\* The select of the row with its video_prs, then the update to analyzing.
ProcessVideoWithWebhook_SetAnalyzing(r) ==
    /\ runs[r].kind = "v1" /\ runs[r].pc = "setAnalyzing"
    /\ video' = [video EXCEPT !.status = "analyzing"]
    /\ runs' = [runs EXCEPT ![r].pc = "fetch",
                            ![r].isMultiPR = Len(video_prs) > 1]
    /\ UNCHANGED <<ingestVars, limiterVars, keyVars, assetVars>>
    /\ UNCHANGED <<webhookUrl, notifications, changeTypes, webhookSecret>>
    /\ UNCHANGED <<video_prs, pr_screenshots, remotionServerUrl, retries, dispatched,
                   delivered>>

\* Promise.all over the metadata and the comments of every reference, then
\* parseScreenshotsFromComments; there is no capture fallback here.
ProcessVideoWithWebhook_Fetch(r) ==
    /\ runs[r].kind = "v1" /\ runs[r].pc = "fetch"
    /\ \/ \E shots \in 0..MaxShots :
            runs' = [runs EXCEPT
                ![r].prDataResults =
                    [k \in 1..Len(video_prs) |-> GitHubPR(SortedPRs(video_prs)[k])],
                ![r].screenshots = shots,
                ![r].i = 1,
                ![r].pc = "updatePRs"]
       \/ \E k \in 1..Len(video_prs) :
            \/ Raise(r, "Failed to fetch PR")
            \/ Raise(r, FetchPRComments_Error)
    /\ UNCHANGED <<ingestVars, limiterVars, keyVars, assetVars>>
    /\ UNCHANGED <<webhookUrl, notifications, changeTypes, webhookSecret>>
    /\ UNCHANGED <<video, video_prs, pr_screenshots, remotionServerUrl, retries,
                   dispatched, delivered>>

ProcessVideoWithWebhook_UpdatePR(r) ==
    /\ runs[r].kind = "v1" /\ runs[r].pc = "updatePRs"
    /\ LET i == runs[r].i
           row == SortedPRs(video_prs)[i]
           prData == runs[r].prDataResults[i]
       IN /\ video_prs' = [video_prs EXCEPT
                  ![row].pr_title = prData.title,
                  ![row].pr_files_changed = prData.filesChanged,
                  ![row].pr_additions = prData.additions,
                  ![row].pr_deletions = prData.deletions]
          /\ runs' = [runs EXCEPT
                  ![r].i = i + 1,
                  ![r].pc = IF i < Len(video_prs)
                            THEN "updatePRs" ELSE "updateVideo"]
    /\ UNCHANGED <<ingestVars, limiterVars, keyVars, assetVars>>
    /\ UNCHANGED <<webhookUrl, notifications, changeTypes, webhookSecret>>
    /\ UNCHANGED <<video, pr_screenshots, remotionServerUrl, retries, dispatched,
                   delivered>>

ProcessVideoWithWebhook_UpdateVideo(r) ==
    /\ runs[r].kind = "v1" /\ runs[r].pc = "updateVideo"
    /\ LET results == runs[r].prDataResults
           firstPRData == results[1]
       IN video' = [video EXCEPT
                  !.pr_title = firstPRData.title,
                  !.pr_files_changed = firstPRData.filesChanged,
                  !.pr_additions = firstPRData.additions,
                  !.pr_deletions = firstPRData.deletions,
                  !.total_files_changed = SumOf(results, "filesChanged"),
                  !.total_additions = SumOf(results, "additions"),
                  !.total_deletions = SumOf(results, "deletions"),
                  !.screenshot_count = runs[r].screenshots]
    /\ runs' = [runs EXCEPT ![r].totals = TRUE,
                            ![r].pc = IF runs[r].screenshots > 0
                                      THEN "storeScreenshots" ELSE "analyze"]
    /\ UNCHANGED <<ingestVars, limiterVars, keyVars, assetVars>>
    /\ UNCHANGED <<webhookUrl, notifications, changeTypes, webhookSecret>>
    /\ UNCHANGED <<video_prs, pr_screenshots, remotionServerUrl, retries, dispatched,
                   delivered>>

\* insert into pr_screenshots; its result is not looked at.
ProcessVideoWithWebhook_StoreScreenshots(r) ==
    /\ runs[r].kind = "v1" /\ runs[r].pc = "storeScreenshots"
    /\ \/ pr_screenshots' = pr_screenshots + runs[r].screenshots
       \/ pr_screenshots' = pr_screenshots
    /\ Step(r, "analyze")
    /\ UNCHANGED <<ingestVars, limiterVars, keyVars, assetVars>>
    /\ UNCHANGED <<webhookUrl, notifications, changeTypes, webhookSecret>>
    /\ UNCHANGED <<video, video_prs, remotionServerUrl, retries, dispatched, delivered>>

ProcessVideoWithWebhook_Analyze(r) ==
    /\ runs[r].kind = "v1" /\ runs[r].pc = "analyze"
    /\ \/ \E changeType \in changeTypes :
          runs' = [runs EXCEPT
              ![r].analysis = IF runs[r].isMultiPR THEN "multi" ELSE "single",
              ![r].changeType = changeType,
              ![r].displayTitle = IF runs[r].isMultiPR THEN UnifiedTitle
                                  ELSE runs[r].prDataResults[1].title,
              ![r].pc = IF runs[r].isMultiPR THEN "setTitle" ELSE "saveAnalysis"]
       \/ Raise(r, "Could not parse JSON from Claude response")
    /\ UNCHANGED <<ingestVars, limiterVars, keyVars, assetVars>>
    /\ UNCHANGED <<webhookUrl, notifications, changeTypes, webhookSecret>>
    /\ UNCHANGED <<video, video_prs, pr_screenshots, remotionServerUrl, retries,
                   dispatched, delivered>>

ProcessVideoWithWebhook_SetTitle(r) ==
    /\ runs[r].kind = "v1" /\ runs[r].pc = "setTitle"
    /\ video' = [video EXCEPT !.pr_title = runs[r].displayTitle]
    /\ Step(r, "saveAnalysis")
    /\ UNCHANGED <<ingestVars, limiterVars, keyVars, assetVars>>
    /\ UNCHANGED <<webhookUrl, notifications, changeTypes, webhookSecret>>
    /\ UNCHANGED <<video_prs, pr_screenshots, remotionServerUrl, retries, dispatched,
                   delivered>>

ProcessVideoWithWebhook_SaveAnalysis(r) ==
    /\ runs[r].kind = "v1" /\ runs[r].pc = "saveAnalysis"
    /\ video' = [video EXCEPT !.ai_summary = "summary", !.ai_script = "script",
                           !.change_type = runs[r].changeType,
                           !.status = "generating_audio"]
    /\ Step(r, "audio")
    /\ UNCHANGED <<ingestVars, limiterVars, keyVars, assetVars>>
    /\ UNCHANGED <<webhookUrl, notifications, changeTypes, webhookSecret>>
    /\ UNCHANGED <<video_prs, pr_screenshots, remotionServerUrl, retries, dispatched,
                   delivered>>

ProcessVideoWithWebhook_Audio(r) ==
    /\ runs[r].kind = "v1" /\ runs[r].pc = "audio"
    /\ \/ Step(r, "setRendering")
       \/ Raise(r, "ElevenLabs API error")
       \/ Raise(r, "Failed to upload audio")
    /\ UNCHANGED <<ingestVars, limiterVars, keyVars, assetVars>>
    /\ UNCHANGED <<webhookUrl, notifications, changeTypes, webhookSecret>>
    /\ UNCHANGED <<video, video_prs, pr_screenshots, remotionServerUrl, retries,
                   dispatched, delivered>>

ProcessVideoWithWebhook_SetRendering(r) ==
    /\ runs[r].kind = "v1" /\ runs[r].pc = "setRendering"
    /\ video' = [video EXCEPT !.audio_url = "audio", !.status = "rendering"]
    /\ Step(r, IF remotionServerUrl THEN "dispatch" ELSE "setComplete")
    /\ UNCHANGED <<ingestVars, limiterVars, keyVars, assetVars>>
    /\ UNCHANGED <<webhookUrl, notifications, changeTypes, webhookSecret>>
    /\ UNCHANGED <<video_prs, pr_screenshots, remotionServerUrl, retries, dispatched,
                   delivered>>

\* The POST to <remotion>/render, which passes webhookUrl on as
\* externalWebhookUrl; the run sends no notification on this path.
ProcessVideoWithWebhook_Dispatch(r) ==
    /\ runs[r].kind = "v1" /\ runs[r].pc = "dispatch"
    /\ \/ /\ dispatched' = dispatched + 1
          /\ Return(r)
       \/ /\ dispatched' = dispatched
          /\ Raise(r, "Failed to start render")
    /\ UNCHANGED <<ingestVars, limiterVars, keyVars, assetVars>>
    /\ UNCHANGED <<webhookUrl, notifications, changeTypes, webhookSecret>>
    /\ UNCHANGED <<video, video_prs, pr_screenshots, remotionServerUrl, retries,
                   delivered>>

\* No remotion server: mark as complete, then notify if a URL was given.
ProcessVideoWithWebhook_SetComplete(r) ==
    /\ runs[r].kind = "v1" /\ runs[r].pc = "setComplete"
    /\ video' = [video EXCEPT !.status = "complete", !.completed_at = "now"]
    /\ IF webhookUrl # NULL THEN Step(r, "notifyComplete") ELSE Return(r)
    /\ UNCHANGED <<ingestVars, limiterVars, keyVars, assetVars>>
    /\ UNCHANGED <<webhookUrl, notifications, changeTypes, webhookSecret>>
    /\ UNCHANGED <<video_prs, pr_screenshots, remotionServerUrl, retries, dispatched,
                   delivered>>

\* The catch block: failed with the message, then notify if a URL was given.
ProcessVideoWithWebhook_Catch(r) ==
    /\ runs[r].kind = "v1" /\ runs[r].pc = "catch"
    /\ video' = [video EXCEPT !.status = "failed",
                           !.error_message = ErrorMessage(runs[r].err[1])]
    /\ IF webhookUrl # NULL THEN Step(r, "notifyFailed") ELSE Return(r)
    /\ UNCHANGED <<ingestVars, limiterVars, keyVars, assetVars>>
    /\ UNCHANGED <<webhookUrl, notifications, changeTypes, webhookSecret>>
    /\ UNCHANGED <<video_prs, pr_screenshots, remotionServerUrl, retries, dispatched,
                   delivered>>

\* sendWebhookNotification(webhookUrl, videoId, status, error): the select of
\* share_id and video_url, then the POST to the caller's URL; a failure of
\* either is logged and dropped.
SendWebhookNotification(r) ==
    /\ runs[r].kind = "v1" /\ runs[r].pc \in {"notifyComplete", "notifyFailed"}
    /\ notifications' = Append(notifications,
           [status |-> IF runs[r].pc = "notifyComplete"
                       THEN "complete" ELSE "failed",
            video_url |-> video.video_url,
            error |-> IF runs[r].pc = "notifyComplete" THEN NULL
                      ELSE ErrorMessage(runs[r].err[1])])
    /\ Return(r)
    /\ UNCHANGED <<ingestVars, limiterVars, keyVars, assetVars>>
    /\ UNCHANGED <<webhookUrl, changeTypes, webhookSecret>>
    /\ UNCHANGED <<video, video_prs, pr_screenshots, remotionServerUrl, retries,
                   dispatched, delivered>>

ProcessVideoWithWebhook(r) ==
    \/ ProcessVideoWithWebhook_SetAnalyzing(r)
    \/ ProcessVideoWithWebhook_Fetch(r)
    \/ ProcessVideoWithWebhook_UpdatePR(r)
    \/ ProcessVideoWithWebhook_UpdateVideo(r)
    \/ ProcessVideoWithWebhook_StoreScreenshots(r)
    \/ ProcessVideoWithWebhook_Analyze(r)
    \/ ProcessVideoWithWebhook_SetTitle(r)
    \/ ProcessVideoWithWebhook_SaveAnalysis(r)
    \/ ProcessVideoWithWebhook_Audio(r)
    \/ ProcessVideoWithWebhook_SetRendering(r)
    \/ ProcessVideoWithWebhook_Dispatch(r)
    \/ ProcessVideoWithWebhook_SetComplete(r)
    \/ ProcessVideoWithWebhook_Catch(r)
    \/ SendWebhookNotification(r)

\* POST /api/v1/videos accepted the submission: as after POST /api/videos,
\* with the run given the caller's webhook_url, if any.
InitV1 ==
    /\ IngestIdle /\ LimiterIdle /\ KeysIdle /\ AssetsIdle
    /\ webhookUrl \in {NULL, "https://hooks.example/x"}
    /\ notifications = << >>
    /\ changeTypes = {"feature"}
    /\ webhookSecret = "s3cret"
    /\ \E n \in 1..MaxRefs : video_prs = [k \in 1..n |-> NewVideoPR(k)]
    /\ remotionServerUrl \in BOOLEAN
    /\ video = NewVideo
    /\ pr_screenshots = 0
    /\ runs = [r \in RunIds |->
                 IF r = 0
                 THEN [IdleRun EXCEPT !.pc = "setAnalyzing", !.kind = "v1"]
                 ELSE IdleRun]
    /\ retries = [q \in RetryIds |-> "idle"]
    /\ dispatched = 0
    /\ delivered = 0

NextV1 ==
    \/ \E r \in RunIds : ProcessVideoWithWebhook(r)
    \/ \E r \in RunIds : Reprocess(r)
    \/ \E r \in RunIds : Process_POST(r)
    \/ \E q \in RetryIds : Retry_Read(q)
    \/ \E q \in RetryIds : Retry_Update(q)
    \/ \E error \in {NULL, "Render failed"} : RenderComplete(error)

SpecV1 == InitV1 /\ [][NextV1]_vars

\* ------------------- POST /api/webhook/render-complete, as an endpoint
\* A header value is the sequence of the pieces it is written from; the absent
\* header (null) is the empty sequence.
Bearer(secret) == <<"Bearer ", secret>>

\* `Bearer ${process.env.REMOTION_WEBHOOK_SECRET}`: an unset variable is
\* written out as "undefined".
ExpectedSecret ==
    Bearer(IF webhookSecret = NULL THEN "undefined" ELSE webhookSecret)

AuthHeaders ==
    {<< >>, Bearer("s3cret"), Bearer("wrong"), Bearer("undefined"),
     Bearer(""), <<"bearer ", "s3cret">>, <<"s3cret">>}

\* The id of the modelled Job.
VideoId == "video-1"

WebhookRequests ==
    {[path |-> "/api/webhook/render-complete", authorization |-> a,
      body |-> [videoId |-> v, error |-> e]] :
        a \in AuthHeaders, v \in {NULL, VideoId, "video-2"},
        e \in {NULL, "Render failed"}}

\* The row after the handler's update.
RenderCompleteUpdate(row, error) ==
    IF error # NULL
    THEN [row EXCEPT !.status = "failed", !.error_message = error]
    ELSE [row EXCEPT !.video_url = "video", !.thumbnail_url = "thumbnail",
                     !.status = "complete", !.completed_at = "now"]

\* Mutant: any bearer header is let through.
RenderComplete_POST_AnyBearer ==
    /\ request.path = "/api/webhook/render-complete" /\ response = NoResponse
    /\ IF request.authorization = << >> \/ request.authorization[1] # "Bearer "
       THEN response' = Reply(401, "Unauthorized") /\ video' = video
       ELSE IF request.body.videoId = NULL
       THEN response' = Reply(400, "Video ID is required") /\ video' = video
       ELSE /\ video' = IF request.body.videoId = VideoId
                        THEN RenderCompleteUpdate(video, request.body.error)
                        ELSE video
            /\ response' = Reply(200, NULL)
    /\ UNCHANGED <<request, inserted, jobEnv, limiterVars, keyVars, assetVars>>
    /\ UNCHANGED <<video_prs, pr_screenshots, remotionServerUrl, runs, retries,
                   dispatched, delivered>>

\* The whole handler: the header check, the body check, the update of the
\* row whose id is videoId.
RenderComplete_POST ==
    /\ request.path = "/api/webhook/render-complete" /\ response = NoResponse
    /\ IF request.authorization # ExpectedSecret
       THEN response' = Reply(401, "Unauthorized") /\ video' = video
       ELSE IF request.body.videoId = NULL
       THEN response' = Reply(400, "Video ID is required") /\ video' = video
       ELSE /\ video' = IF request.body.videoId = VideoId
                        THEN RenderCompleteUpdate(video, request.body.error)
                        ELSE video
            /\ response' = Reply(200, NULL)
    /\ UNCHANGED <<request, inserted, jobEnv, limiterVars, keyVars, assetVars>>
    /\ UNCHANGED <<video_prs, pr_screenshots, remotionServerUrl, runs, retries,
                   dispatched, delivered>>

\* A Job in any status, with or without a configured secret, and one request.
InitWebhook ==
    /\ LimiterIdle /\ KeysIdle /\ AssetsIdle
    /\ webhookUrl = NULL /\ notifications = << >> /\ changeTypes = {"feature"}
    /\ webhookSecret \in {"s3cret", NULL}
    /\ request \in WebhookRequests
    /\ response = NoResponse
    /\ inserted = Nothing
    /\ \E status \in VideoStatus : video = [NewVideo EXCEPT !.status = status]
    /\ video_prs = <<NewVideoPR(1)>>
    /\ pr_screenshots = 0
    /\ remotionServerUrl = TRUE
    /\ runs = [r \in RunIds |-> IdleRun]
    /\ retries = [q \in RetryIds |-> "idle"]
    /\ dispatched = 0
    /\ delivered = 0

NextWebhook == RenderComplete_POST

SpecWebhook == InitWebhook /\ [][NextWebhook]_vars

\* --------------------------------------- checkRateLimit of lib/api-auth.ts
\* checkRateLimit(validation.keyId!, 10, 60000)
RateLimit == 10
WindowMs == 60000

KeyIds == {"key-1", "key-2"}

\* The clock moves on by a millisecond or by a whole window.
Delays == {1, WindowMs}

\* Mutant: the sweep also drops the window that ends now.
CleanUp_Eager(store) ==
    [key \in {k \in DOMAIN store : ~(store[k].resetAt <= now)} |-> store[key]]

\* "Clean up expired entries": the map without the entries whose resetAt is
\* past.
CleanUp(store) ==
    [key \in {k \in DOMAIN store : ~(store[k].resetAt < now)} |-> store[key]]

\* The map with key set to record.
MapSet(store, key, record) ==
    [k \in DOMAIN store \cup {key} |-> IF k = key THEN record ELSE store[k]]

\* Mutant: the window is restarted at the limit instead of denying.
RateLimitResult_Restarts(store, keyId, limit, windowMs) ==
    IF \/ keyId \notin DOMAIN store
       \/ store[keyId].resetAt < now
       \/ store[keyId].count >= limit
    THEN [allowed |-> TRUE, remaining |-> limit - 1, resetAt |-> now + windowMs]
    ELSE [allowed |-> TRUE, remaining |-> limit - (store[keyId].count + 1),
          resetAt |-> store[keyId].resetAt]

\* What checkRateLimit returns, given the record it read from the map.
RateLimitResult(store, keyId, limit, windowMs) ==
    IF keyId \notin DOMAIN store \/ store[keyId].resetAt < now
    THEN [allowed |-> TRUE, remaining |-> limit - 1, resetAt |-> now + windowMs]
    ELSE IF store[keyId].count >= limit
    THEN [allowed |-> FALSE, remaining |-> 0, resetAt |-> store[keyId].resetAt]
    ELSE [allowed |-> TRUE, remaining |-> limit - (store[keyId].count + 1),
          resetAt |-> store[keyId].resetAt]

\* The map after one call: record is read first, the expired entries are
\* dropped when cleanup (Math.random() < 0.01), then the window is started or
\* the count of the record raised.
StoreAfterCheck(store, keyId, limit, windowMs, cleanup) ==
    LET record == IF keyId \in DOMAIN store
                  THEN store[keyId] ELSE [count |-> 0, resetAt |-> 0]
        cleaned == IF cleanup THEN CleanUp(store) ELSE store
    IN  IF keyId \notin DOMAIN store \/ record.resetAt < now
        THEN MapSet(cleaned, keyId, [count |-> 1, resetAt |-> now + windowMs])
        ELSE IF record.count >= limit THEN cleaned
        ELSE MapSet(cleaned, keyId, [record EXCEPT !.count = record.count + 1])

\* One call of checkRateLimit. history keeps, per credential, the time and
\* the answer of each call.
CheckRateLimit(keyId, limit, windowMs) ==
    /\ Len(history[keyId]) < MaxChecks
    /\ \A k \in KeyIds \ {keyId} :
          Len(history[k]) + Len(history[keyId]) < MaxChecks
    /\ \E cleanup \in BOOLEAN :
        LET result == RateLimitResult(rateLimitStore, keyId, limit, windowMs)
        IN /\ rateLimitStore' = StoreAfterCheck(rateLimitStore, keyId, limit,
                                                windowMs, cleanup)
           /\ response' = result
           /\ history' = [history EXCEPT ![keyId] =
                              Append(@, [at |-> now, result |-> result])]
    /\ UNCHANGED <<now, ticks, request, inserted, pipelineVars, jobEnv, keyVars, assetVars>>

\* Time passes.
Advance ==
    /\ ticks < MaxAdvances
    /\ ticks' = ticks + 1
    /\ \E d \in Delays : now' = now + d
    /\ UNCHANGED <<rateLimitStore, history, ingestVars, pipelineVars, jobEnv,
                   keyVars, assetVars>>

InitLimiter ==
    /\ PipelineIdle /\ JobEnvIdle /\ IngestIdle /\ KeysIdle /\ AssetsIdle
    /\ rateLimitStore = << >>
    /\ now = 0
    /\ ticks = 0
    /\ history = [k \in KeyIds |-> << >>]

NextLimiter ==
    \/ \E keyId \in KeyIds : CheckRateLimit(keyId, RateLimit, WindowMs)
    \/ Advance

SpecLimiter == InitLimiter /\ [][NextLimiter]_vars

\* =================================================== submission endpoints
\* A URL is the sequence of its segments between "/" (scheme dropped).
PullUrl(owner, repo, number) == <<"github.com", owner, repo, "pull", number>>

\* The digit strings the URLs of the model use, by value.
Digits == <<"1", "2", "3", "4", "5", "6", "7", "8", "9", "10", "11">>

NaN == 0 - 1

\* parseInt(s, 10) of a segment, NaN (here -1) when it has no leading digit.
ParseInt(s) ==
    IF s = "007" THEN 7
    ELSE IF \E n \in 1..Len(Digits) : Digits[n] = s
         THEN CHOOSE n \in 1..Len(Digits) : Digits[n] = s
         ELSE NaN

NoMatch == [owner |-> NULL, repo |-> NULL, number |-> NaN]

\* Mutant: the pattern accepts any path under the repository.
ParsePRUrl_AnyPath(url) ==
    IF /\ Len(url) >= 5 /\ url[1] = "github.com" /\ ParseInt(url[5]) # NaN
    THEN [owner |-> url[2], repo |-> url[3], number |-> ParseInt(url[5])]
    ELSE NoMatch

\* url.match(/(?:https?:\/\/)?github\.com\/([^\/]+)\/([^\/]+)\/pull\/(\d+)/):
\* the leftmost place where the five segments follow each other.
ParsePRUrl(url) ==
    LET Matches(i) ==
            /\ url[i] = "github.com" /\ url[i + 1] # "" /\ url[i + 2] # ""
            /\ url[i + 3] = "pull" /\ ParseInt(url[i + 4]) # NaN
        places == {i \in 1..(Len(url) - 4) : Matches(i)}
    IN IF places = {} THEN NoMatch
       ELSE LET i == CHOOSE j \in places : \A k \in places : j <= k
            IN [owner |-> url[i + 1], repo |-> url[i + 2],
                number |-> ParseInt(url[i + 4])]

\* The parsed list, or the first validation error of the handler.
FirstError(checks) ==
    IF \E i \in 1..Len(checks) : checks[i][1]
    THEN checks[CHOOSE i \in 1..Len(checks) :
                  checks[i][1] /\ \A j \in 1..(i - 1) : ~checks[j][1]][2]
    ELSE NULL

MaxPRs == 10

\* The checks both handlers make on the list, in their order.
UrlListChecks(prUrls) ==
    LET parsedPRs == [i \in 1..Len(prUrls) |-> ParsePRUrl(prUrls[i])]
    IN << <<Len(prUrls) = 0, "At least one PR URL is required">>,
          <<Len(prUrls) > MaxPRs, "Maximum 10 PRs allowed per video">>,
          <<\E i \in 1..Len(prUrls) : parsedPRs[i] = NoMatch,
            "Invalid GitHub PR URL">>,
          <<\E i \in 1..Len(prUrls) :
                \/ parsedPRs[i].owner # parsedPRs[1].owner
                \/ parsedPRs[i].repo # parsedPRs[1].repo,
            "All PRs must be from the same repository">>,
          <<Cardinality({parsedPRs[i].number : i \in 1..Len(prUrls)})
                # Len(prUrls),
            "Duplicate PRs are not allowed">> >>

\* The URLs submissions are built from: two items of one repository, the
\* first again with leading zeros, an item of another repository, and a URL
\* that is no pull request.
UrlPool ==
    {PullUrl("acme", "app", "7"),
     <<"https:", "", "github.com", "acme", "app", "pull", "8">>,
     PullUrl("acme", "app", "007"),
     PullUrl("acme", "web", "9"),
     <<"github.com", "acme", "app", "issues", "7">>}

\* n distinct items of one repository.
LongList(n) == [i \in 1..n |-> PullUrl("acme", "app", Digits[i])]

UrlLists ==
    UNION {[1..n -> UrlPool] : n \in 0..MaxUrls}
        \cup {LongList(MaxPRs), LongList(MaxPRs + 1)}

\* The JSON body: the list under one of the keys the handlers read (an absent
\* key is the empty sequence; prUrl holds a single URL).
Body(key, list) ==
    [prUrls |-> IF key = "prUrls" THEN list ELSE << >>,
     pr_urls |-> IF key = "pr_urls" THEN list ELSE << >>,
     prUrl |-> IF key = "prUrl" /\ list # << >> THEN <<list[1]>> ELSE << >>]

WebhookUrls == {NULL, "https://hooks.example/x", "not a url"}

\* new URL(webhookUrl) does not throw.
IsUrl(url) == url = "https://hooks.example/x"

Requests ==
    {[path |-> path, user |-> user, body |-> Body(key, list),
      webhook_url |-> webhook_url] :
        path \in {"/api/videos", "/api/v1/videos"}, user \in BOOLEAN,
        key \in {"prUrls", "pr_urls", "prUrl"}, list \in UrlLists,
        webhook_url \in WebhookUrls}

\* insert into videos, insert into video_prs (on its error the videos row is
\* deleted again), then the detached pipeline run.
InsertJob(prUrls, insertError, videoPRsError) ==
    IF insertError \/ videoPRsError THEN Nothing
    ELSE [videos |-> 1,
          video_prs |-> [i \in 1..Len(prUrls) |->
                            [pr_number |-> ParsePRUrl(prUrls[i]).number,
                             display_order |-> i - 1]],
          runs |-> 1]

\* POST of app/api/videos/route.ts.
Videos_POST ==
    /\ request.path = "/api/videos" /\ response = NoResponse
    /\ \E insertError \in BOOLEAN, videoPRsError \in BOOLEAN :
        LET prUrls == IF request.body.prUrls # << >> THEN request.body.prUrls
                      ELSE request.body.prUrl
            error == FirstError(UrlListChecks(prUrls))
        IN IF ~request.user
           THEN response' = Reply(401, "Unauthorized") /\ inserted' = inserted
           ELSE IF error # NULL
           THEN response' = Reply(400, error) /\ inserted' = inserted
           ELSE /\ inserted' = InsertJob(prUrls, insertError, videoPRsError)
                /\ response' = IF insertError \/ videoPRsError
                               THEN Reply(500, "insert failed")
                               ELSE Reply(200, NULL)
    /\ UNCHANGED <<request, pipelineVars, jobEnv, limiterVars, keyVars, assetVars>>

\* POST of app/api/v1/videos/route.ts; valid and allowed are the answers of
\* validateApiKey and checkRateLimit.
V1_Videos_POST ==
    /\ request.path = "/api/v1/videos" /\ response = NoResponse
    /\ \E allowed \in BOOLEAN, insertError \in BOOLEAN,
          videoPRsError \in BOOLEAN :
        LET prUrls == IF request.body.pr_urls # << >> THEN request.body.pr_urls
                      ELSE request.body.prUrls
            webhook_url == request.webhook_url
            checks == UrlListChecks(prUrls)
            error == FirstError(
                <<checks[1], checks[2],
                  <<webhook_url # NULL /\ ~IsUrl(webhook_url),
                    "Invalid webhook_url format">>,
                  checks[3], checks[4], checks[5]>>)
        IN IF ~request.user
           THEN response' = Reply(401, "Invalid API key") /\ inserted' = inserted
           ELSE IF ~allowed
           THEN response' = Reply(429, "Rate limit exceeded")
                /\ inserted' = inserted
           ELSE IF error # NULL
           THEN response' = Reply(400, error) /\ inserted' = inserted
           ELSE /\ inserted' = InsertJob(prUrls, insertError, videoPRsError)
                /\ response' = IF insertError \/ videoPRsError
                               THEN Reply(500, "Failed to create video")
                               ELSE Reply(202, NULL)
    /\ UNCHANGED <<request, pipelineVars, jobEnv, limiterVars, keyVars, assetVars>>

InitSubmit ==
    /\ PipelineIdle /\ JobEnvIdle /\ LimiterIdle /\ KeysIdle /\ AssetsIdle
    /\ request \in Requests
    /\ response = NoResponse
    /\ inserted = Nothing

NextSubmit ==
    \/ Videos_POST
    \/ V1_Videos_POST

SpecSubmit == InitSubmit /\ [][NextSubmit]_vars

\* ------------------------------------------------------ API credentials
\* The cap on an owner's active credentials (POST /api/api-keys).
MaxActiveKeys == 10

Users == {"u1", "u2"}
CreateIds == 1..MaxCreates
ValidateIds == 1..MaxValidations

\* createHash("sha256").update(key).digest("hex"): a value made from the key
\* and different from it.
HashApiKey(key) == <<"sha256">> \o key

\* generateApiKey: "ds_" followed by 32 random bytes; the random part of the
\* n-th generated key is written n.
GenerateApiKey(randomPart) ==
    LET key == <<"ds_", randomPart>>
    IN  [key |-> key, hash |-> HashApiKey(key)]

\* An inserted api_keys row: last_used_at and revoked_at default to NULL
\* (NullInt, the timestamps being numbers here).
NewApiKey(id, user_id, hash) ==
    [id |-> id, user_id |-> user_id, key_hash |-> hash,
     last_used_at |-> NullInt, revoked_at |-> NullInt]

\* .eq("user_id", user.id).is("revoked_at", null)
ActiveKeys(rows, user_id) ==
    {i \in DOMAIN rows :
        rows[i].user_id = user_id /\ rows[i].revoked_at = NullInt}

IdleCreate == [pc |-> "idle", user_id |-> NULL, status |-> 0]

Invalid(error) ==
    [valid |-> FALSE, error |-> error, userId |-> NULL, keyId |-> 0]

IdleValidation ==
    [pc |-> "idle", authHeader |-> << >>, result |-> Invalid(NULL), at |-> 0]

\* Mutant: the cap is compared with > instead of >=.
ApiKeys_POST_Count_OffByOne(c) ==
    /\ keyRequests.creates[c].pc = "idle"
    /\ \A d \in CreateIds : d < c => keyRequests.creates[d].pc # "idle"
    /\ \E user_id \in Users :
        LET count == Cardinality(ActiveKeys(api_keys, user_id))
        IN  keyRequests' = [keyRequests EXCEPT !.creates[c] =
                IF count > MaxActiveKeys
                THEN [pc |-> "done", user_id |-> user_id, status |-> 400]
                ELSE [pc |-> "insert", user_id |-> user_id, status |-> 0]]
    /\ UNCHANGED <<api_keys, pipelineVars, jobEnv, ingestVars, limiterVars,
                   assetVars>>

\* POST /api/api-keys, up to the check of the count of the owner's active
\* keys: 400 at 10 or more, otherwise the handler goes on to the insert.
ApiKeys_POST_Count(c) ==
    /\ keyRequests.creates[c].pc = "idle"
    /\ \A d \in CreateIds : d < c => keyRequests.creates[d].pc # "idle"
    /\ \E user_id \in Users :
        LET count == Cardinality(ActiveKeys(api_keys, user_id))
        IN  keyRequests' = [keyRequests EXCEPT !.creates[c] =
                IF count >= MaxActiveKeys
                THEN [pc |-> "done", user_id |-> user_id, status |-> 400]
                ELSE [pc |-> "insert", user_id |-> user_id, status |-> 0]]
    /\ UNCHANGED <<api_keys, pipelineVars, jobEnv, ingestVars, limiterVars,
                   assetVars>>

\* POST /api/api-keys, the insert of the generated key and the reply: 500 when
\* the insert fails, 201 otherwise.
ApiKeys_POST_Insert(c, insertError) ==
    /\ keyRequests.creates[c].pc = "insert"
    /\ LET id == Len(api_keys) + 1
           user_id == keyRequests.creates[c].user_id
       IN  IF insertError
           THEN /\ api_keys' = api_keys
                /\ keyRequests' = [keyRequests EXCEPT
                       !.creates[c].pc = "done", !.creates[c].status = 500]
           ELSE /\ api_keys' = Append(api_keys,
                       NewApiKey(id, user_id, GenerateApiKey(id).hash))
                /\ keyRequests' = [keyRequests EXCEPT
                       !.creates[c].pc = "done", !.creates[c].status = 201]
    /\ UNCHANGED <<pipelineVars, jobEnv, ingestVars, limiterVars,
                   assetVars>>

\* Mutant: the update is not restricted to rows whose revoked_at is null.
ApiKeys_DELETE_Again(user_id, id) ==
    /\ keyRequests.revokes < MaxRevokes
    /\ LET hit == /\ id \in DOMAIN api_keys
                  /\ api_keys[id].user_id = user_id
       IN  /\ api_keys' = IF hit
                          THEN [api_keys EXCEPT ![id].revoked_at = now]
                          ELSE api_keys
           /\ keyRequests' = [keyRequests EXCEPT !.revokes = @ + 1]
    /\ UNCHANGED <<pipelineVars, jobEnv, ingestVars, limiterVars,
                   assetVars>>

\* DELETE /api/api-keys/[id]: one UPDATE of the row with this id, this owner
\* and revoked_at null; 404 when no row was updated.
ApiKeys_DELETE(user_id, id) ==
    /\ keyRequests.revokes < MaxRevokes
    /\ LET hit == /\ id \in DOMAIN api_keys
                  /\ api_keys[id].user_id = user_id
                  /\ api_keys[id].revoked_at = NullInt
       IN  /\ api_keys' = IF hit
                          THEN [api_keys EXCEPT ![id].revoked_at = now]
                          ELSE api_keys
           /\ keyRequests' = [keyRequests EXCEPT !.revokes = @ + 1]
    /\ UNCHANGED <<pipelineVars, jobEnv, ingestVars, limiterVars,
                   assetVars>>

\* validateApiKey up to its return value: the header, its format
\* /^Bearer\s+(ds_[A-Za-z0-9_-]+)$/, the row with the key's hash, revoked_at.
ValidateApiKey(rows, authHeader) ==
    IF authHeader = << >>
    THEN Invalid("Missing Authorization header")
    ELSE IF ~(/\ Len(authHeader) = 3
              /\ authHeader[1] = "Bearer "
              /\ authHeader[2] = "ds_")
    THEN Invalid("Invalid Authorization format. Use: Bearer ds_xxx")
    ELSE LET keyHash == HashApiKey(<<authHeader[2], authHeader[3]>>)
             found == {i \in DOMAIN rows : rows[i].key_hash = keyHash}
         IN  IF Cardinality(found) # 1
             THEN Invalid("Invalid API key")
             ELSE LET apiKeyRecord == rows[CHOOSE i \in found : TRUE]
                  IN  IF apiKeyRecord.revoked_at # NullInt
                      THEN Invalid("API key has been revoked")
                      ELSE [valid |-> TRUE, error |-> NULL,
                            userId |-> apiKeyRecord.user_id,
                            keyId |-> apiKeyRecord.id]

\* validateApiKey: the lookup and the return; for a valid key the update of
\* last_used_at is issued with the present time and not awaited.
ValidateApiKey_Lookup(v, authHeader) ==
    /\ keyRequests.validations[v].pc = "idle"
    /\ \A w \in ValidateIds : w < v => keyRequests.validations[w].pc # "idle"
    /\ LET result == ValidateApiKey(api_keys, authHeader)
       IN  keyRequests' = [keyRequests EXCEPT !.validations[v] =
               [pc |-> IF result.valid THEN "touch" ELSE "done",
                authHeader |-> authHeader, result |-> result, at |-> now]]
    /\ UNCHANGED <<api_keys, pipelineVars, jobEnv, ingestVars, limiterVars,
                   assetVars>>

\* The issued update of last_used_at reaches the table.
ValidateApiKey_Touch(v) ==
    /\ keyRequests.validations[v].pc = "touch"
    /\ LET id == keyRequests.validations[v].result.keyId
       IN  api_keys' = [api_keys EXCEPT
               ![id].last_used_at = keyRequests.validations[v].at]
    /\ keyRequests' = [keyRequests EXCEPT !.validations[v].pc = "done"]
    /\ UNCHANGED <<pipelineVars, jobEnv, ingestVars, limiterVars,
                   assetVars>>

\* new Date(): a later moment.
Tick ==
    /\ ticks < MaxAdvances
    /\ ticks' = ticks + 1
    /\ now' = now + 1
    /\ UNCHANGED <<rateLimitStore, history, ingestVars, pipelineVars, jobEnv,
                   keyVars, assetVars>>

\* The ids a request names: the oldest row, the newest row, no row.
TargetIds == {0, 1, Len(api_keys)}

KeyHeaders ==
    {<< >>, <<"Basic ", "ds_", 1>>, <<"Bearer ", "sk_", 1>>}
        \cup {<<"Bearer ", "ds_", id>> : id \in TargetIds}

InitKeys ==
    /\ PipelineIdle /\ JobEnvIdle /\ IngestIdle /\ AssetsIdle
    /\ rateLimitStore = << >> /\ now = 0 /\ ticks = 0 /\ history = << >>
    /\ \E n \in (MaxActiveKeys - 1)..MaxActiveKeys :
        api_keys = [i \in 1..n |-> NewApiKey(i, "u1", GenerateApiKey(i).hash)]
    /\ keyRequests = [creates |-> [c \in CreateIds |-> IdleCreate],
                      validations |-> [v \in ValidateIds |-> IdleValidation],
                      revokes |-> 0]

\* Creations and revocations, in any interleaving.
NextKeys ==
    \/ \E c \in CreateIds : ApiKeys_POST_Count(c)
    \/ \E c \in CreateIds, insertError \in BOOLEAN :
            ApiKeys_POST_Insert(c, insertError)
    \/ \E user_id \in Users, id \in TargetIds : ApiKeys_DELETE(user_id, id)

SpecKeys == InitKeys /\ [][NextKeys]_vars

\* Revocations and validations as time passes, beside one creation.
NextRevoke ==
    \/ \E user_id \in Users, id \in TargetIds : ApiKeys_DELETE(user_id, id)
    \/ \E v \in ValidateIds, authHeader \in KeyHeaders :
            ValidateApiKey_Lookup(v, authHeader)
    \/ \E v \in ValidateIds : ValidateApiKey_Touch(v)
    \/ ApiKeys_POST_Count(1)
    \/ \E insertError \in BOOLEAN : ApiKeys_POST_Insert(1, insertError)
    \/ Tick

SpecRevoke == InitKeys /\ [][NextRevoke]_vars

\* --------------------------------------------- lib/screenshots.ts
MAX_SCREENSHOTS == 6

\* A comment body is the sequence of what the patterns can find in it: an
\* image in Markdown syntax, an <img> tag with src first, an <img> tag with
\* alt first, a URL in the text.
Md(url) == [syntax |-> "md", url |-> url, alt |-> "shot"]
ImgSrcFirst(url) == [syntax |-> "img", url |-> url, alt |-> NULL]
ImgAltFirst(url) == [syntax |-> "imgAlt", url |-> url, alt |-> "shot"]
Text(url) == [syntax |-> "text", url |-> url, alt |-> NULL]

Shot(name) == <<"https://user-images.githubusercontent.com/", name, ".png">>
Badge == <<"https://shields.io/badge.svg">>
VercelPreview == <<"https://myapp-git-feat.vercel.app">>
NetlifyPreview == <<"https://site--pr-7.netlify.app">>

\* isValidScreenshotUrl on the URLs above: the badge host is on the exclude
\* list, a preview URL has no image extension and no known image host, the
\* user-images URLs have both.
IsValidScreenshotUrl(url) == Len(url) = 3 /\ url[3] = ".png"

\* author.toLowerCase()
ToLowerCase(login) == IF login = "Vercel[bot]" THEN "vercel[bot]" ELSE login

\* SCREENSHOT_BOTS, the entries the logins used here can hit.
SCREENSHOT_BOTS ==
    [login \in {"vercel[bot]", "netlify[bot]"} |->
        IF login = "vercel[bot]" THEN "vercel" ELSE "netlify"]

\* identifyScreenshotSource: the bot table, then SOURCE_URL_PATTERNS.
IdentifyScreenshotSource(author, url) ==
    IF ToLowerCase(author) \in DOMAIN SCREENSHOT_BOTS
    THEN SCREENSHOT_BOTS[ToLowerCase(author)]
    ELSE IF url = VercelPreview THEN "vercel"
    ELSE IF url = NetlifyPreview THEN "netlify"
    ELSE "generic"

\* PREVIEW_URL_PATTERNS in their order, and the URLs each one matches.
PREVIEW_URL_PATTERNS ==
    <<[matches |-> {VercelPreview}, source |-> "vercel"],
      [matches |-> {NetlifyPreview}, source |-> "netlify"]>>

\* images.push unless images.some(img => img.url === url), over the matches
\* of one pattern in the order they were found.
RECURSIVE PushNew(_, _)
PushNew(images, found) ==
    IF found = << >> THEN images
    ELSE IF \E k \in DOMAIN images : images[k].url = Head(found).url
    THEN PushNew(images, Tail(found))
    ELSE PushNew(Append(images, Head(found)), Tail(found))

Matches(content, syntaxes) ==
    LET found == SelectSeq(content, LAMBDA item : item.syntax \in syntaxes)
    IN  [k \in DOMAIN found |-> [url |-> found[k].url, alt |-> found[k].alt]]

\* extractImagesFromMarkdown: every Markdown match is pushed; the matches of
\* the <img> pattern (it matches a tag with alt first too) and then those of
\* the alt-first pattern are pushed when their URL is not in the list yet.
ExtractImagesFromMarkdown(content) ==
    PushNew(PushNew(Matches(content, {"md"}),
                    Matches(content, {"img", "imgAlt"})),
            Matches(content, {"imgAlt"}))

RECURSIVE ParseImages(_, _, _)
ParseImages(screenshots, comment, images) ==
    IF images = << >> THEN screenshots
    ELSE IF ~IsValidScreenshotUrl(Head(images).url)
    THEN ParseImages(screenshots, comment, Tail(images))
    ELSE LET pushed == Append(screenshots,
                 [url |-> Head(images).url,
                  source |-> IdentifyScreenshotSource(comment.login,
                                                      Head(images).url),
                  comment_id |-> comment.id,
                  display_order |-> Len(screenshots)])
         IN  IF Len(pushed) >= MAX_SCREENSHOTS THEN pushed
             ELSE ParseImages(pushed, comment, Tail(images))

RECURSIVE ParseComments(_, _)
ParseComments(screenshots, comments) ==
    IF comments = << >> \/ Len(screenshots) >= MAX_SCREENSHOTS
    THEN screenshots
    ELSE ParseComments(
            ParseImages(screenshots, Head(comments),
                        ExtractImagesFromMarkdown(Head(comments).body)),
            Tail(comments))

\* parseScreenshotsFromComments: the valid images of the comments in order,
\* returned as soon as there are MAX_SCREENSHOTS of them.
ParseScreenshotsFromComments(comments) == ParseComments(<< >>, comments)

RECURSIVE PatternMatches(_, _)
PatternMatches(body, patterns) ==
    IF patterns = << >> THEN << >>
    ELSE LET found == SelectSeq(body,
                 LAMBDA item : item.url \in Head(patterns).matches)
         IN  [k \in DOMAIN found |->
                 [url |-> found[k].url, source |-> Head(patterns).source]]
             \o PatternMatches(body, Tail(patterns))

RECURSIVE PreviewUrls(_, _)
PreviewUrls(urls, comments) ==
    IF comments = << >> THEN urls
    ELSE IF ToLowerCase(Head(comments).login) \notin DOMAIN SCREENSHOT_BOTS
    THEN PreviewUrls(urls, Tail(comments))
    ELSE PreviewUrls(
            PushNew(urls, PatternMatches(Head(comments).body,
                                         PREVIEW_URL_PATTERNS)),
            Tail(comments))

\* extractPreviewUrlsFromComments: in the comments of deployment bots, per
\* comment the matches pattern by pattern, each URL once.
ExtractPreviewUrlsFromComments(comments) == PreviewUrls(<< >>, comments)

\* The comments a reference can carry.
CommentPool ==
    {[login |-> "alice", body |-> <<Md(Shot("a"))>>],
     [login |-> "alice", body |-> <<Md(Badge), Md(Shot("a")), Md(Shot("a"))>>],
     [login |-> "alice", body |-> <<Text(VercelPreview)>>],
     [login |-> "alice",
      body |-> <<Md(Shot("a")), ImgSrcFirst(Shot("b")), Md(Shot("c")),
                 ImgAltFirst(Shot("d"))>>],
     [login |-> "alice",
      body |-> <<Md(Shot("e")), Md(Shot("f")), ImgAltFirst(Shot("g"))>>],
     [login |-> "Vercel[bot]", body |-> <<Text(VercelPreview)>>],
     [login |-> "netlify[bot]",
      body |-> <<Text(NetlifyPreview), Text(VercelPreview), Md(Badge)>>],
     [login |-> "vercel[bot]",
      body |-> <<ImgSrcFirst(Shot("a")), ImgAltFirst(Shot("a")),
                 Md(Shot("a"))>>]}

\* commentsResults.flat(): up to MaxComments comments, numbered as they come.
CommentLists ==
    UNION {{[k \in 1..n |-> [id |-> k, login |-> pool[k].login,
                             body |-> pool[k].body]] :
                pool \in [1..n -> CommentPool]} : n \in 0..MaxComments}

\* Is the auto-capture configured (both environment variables set).
CaptureConfigured == remotionServerUrl /\ webhookSecret # NULL

\* processVideo: parseScreenshotsFromComments, then the test for the
\* auto-capture and extractPreviewUrlsFromComments.
ProcessVideo_ParseScreenshots ==
    /\ media.path = "session" /\ media.pc = "parse"
    /\ LET screenshots == ParseScreenshotsFromComments(media.comments)
           previewUrls == ExtractPreviewUrlsFromComments(media.comments)
       IN  media' = [media EXCEPT
               !.screenshots = screenshots,
               !.pc = IF /\ Len(screenshots) = 0
                         /\ CaptureConfigured
                         /\ Len(previewUrls) > 0
                      THEN "capture" ELSE "store"]
    /\ UNCHANGED <<recordings, prFile, refRun, views, pipelineVars, jobEnv, ingestVars, limiterVars,
                   keyVars>>

\* capturePreviewScreenshots for the first preview URL and the route "/": a
\* rejected request or a thrown error gives the empty list, an answer gives the
\* images it holds.
ProcessVideo_AutoCapture ==
    /\ media.path = "session" /\ media.pc = "capture"
    /\ LET firstPreviewUrl == ExtractPreviewUrlsFromComments(media.comments)[1]
       IN  \E n \in 0..MaxCaptured :
            media' = [media EXCEPT
               !.captures = Append(@, [url |-> firstPreviewUrl.url,
                                       routes |-> <<"/">>]),
               !.capturedScreenshots = [k \in 1..n |-> [route |-> "/"]],
               !.i = 0,
               !.pc = IF n > 0 THEN "upload" ELSE "store"]
    /\ UNCHANGED <<recordings, prFile, refRun, views, pipelineVars, jobEnv, ingestVars, limiterVars,
                   keyVars>>

\* One turn of the upload loop: a failed upload is skipped, an uploaded image
\* is pushed with display_order i.
ProcessVideo_Upload ==
    /\ media.path = "session" /\ media.pc = "upload"
    /\ LET i == media.i
           last == i + 1 >= Len(media.capturedScreenshots)
       IN  \E uploadError \in BOOLEAN :
            media' = [media EXCEPT
               !.screenshots =
                    IF uploadError THEN @
                    ELSE Append(@, [url |-> <<"screenshots/", i, ".png">>,
                                    source |-> "auto-capture",
                                    comment_id |-> 0,
                                    display_order |-> i]),
               !.i = i + 1,
               !.pc = IF last THEN "store" ELSE "upload"]
    /\ UNCHANGED <<recordings, prFile, refRun, views, pipelineVars, jobEnv, ingestVars, limiterVars,
                   keyVars>>

\* processVideoWithWebhook: parseScreenshotsFromComments and nothing else.
ProcessVideoWithWebhook_ParseScreenshots ==
    /\ media.path = "v1" /\ media.pc = "parse"
    /\ media' = [media EXCEPT
           !.screenshots = ParseScreenshotsFromComments(media.comments),
           !.pc = "store"]
    /\ UNCHANGED <<recordings, prFile, refRun, views, pipelineVars, jobEnv, ingestVars, limiterVars,
                   keyVars>>

\* screenshots.map((screenshot, index) => ({..., display_order: index})) and
\* the insert; when it fails nothing is stored, and the run goes on.
StoreScreenshots ==
    /\ media.pc = "store"
    /\ \E screenshotsError \in BOOLEAN :
        media' = [media EXCEPT
           !.stored = IF screenshotsError THEN << >>
                      ELSE [k \in DOMAIN media.screenshots |->
                              [media.screenshots[k] EXCEPT
                                  !.display_order = k - 1]],
           !.pc = "analyze"]
    /\ UNCHANGED <<recordings, prFile, refRun, views, pipelineVars, jobEnv, ingestVars, limiterVars,
                   keyVars>>

InitMedia ==
    /\ JobEnvIdle /\ IngestIdle /\ LimiterIdle /\ KeysIdle
    /\ video = NewVideo
    /\ video_prs = << >>
    /\ pr_screenshots = 0
    /\ remotionServerUrl \in BOOLEAN
    /\ runs = [r \in RunIds |-> IdleRun]
    /\ retries = [q \in RetryIds |-> "idle"]
    /\ dispatched = 0
    /\ delivered = 0
    /\ recordings = << >>
    /\ prFile = << >>
    /\ refRun = << >>
    /\ views = << >>
    /\ \E path \in {"session", "v1"}, comments \in CommentLists :
        media = [pc |-> "parse", path |-> path, comments |-> comments,
                 screenshots |-> << >>, capturedScreenshots |-> << >>,
                 i |-> 0, captures |-> << >>, stored |-> << >>]

NextMedia ==
    \/ ProcessVideo_ParseScreenshots
    \/ ProcessVideo_AutoCapture
    \/ ProcessVideo_Upload
    \/ ProcessVideoWithWebhook_ParseScreenshots
    \/ StoreScreenshots

SpecMedia == InitMedia /\ [][NextMedia]_vars

\* ------------------------- app/api/videos/[id]/recording/route.ts
MAX_FILE_SIZE == 50 * 1024 * 1024
MAX_DURATION_MS == 60 * 1000
ALLOWED_MIME_TYPES == {"video/mp4", "video/webm", "video/quicktime"}

UploadIds == 1..MaxUploads
DeleteIds == 1..MaxDeletes

\* recordings/${videoId}.mp4: every upload of the Job writes the same path.
StoragePath == "recordings/video-1.mp4"

\* The form data of an upload.
Uploads ==
    [file : BOOLEAN, type : {"video/mp4", "image/png"},
     size : {MAX_FILE_SIZE, MAX_FILE_SIZE + 1},
     durationMs : {0, MAX_DURATION_MS, MAX_DURATION_MS + 1}]

\* The checks of POST before it touches the recordings, in their order.
UploadError(status, form) ==
    IF status \in {"complete", "rendering"}
    THEN "Cannot upload recording for videos that are already rendering or complete"
    ELSE IF ~form.file THEN "No file provided"
    ELSE IF form.type \notin ALLOWED_MIME_TYPES
    THEN "Invalid file type. Allowed: MP4, WebM, MOV"
    ELSE IF form.size > MAX_FILE_SIZE
    THEN "File too large. Maximum size is 50MB"
    ELSE IF form.durationMs <= 0 THEN "Duration is required"
    ELSE IF form.durationMs > MAX_DURATION_MS
    THEN "Recording too long. Maximum duration is 60 seconds"
    ELSE NULL

\* .eq("video_id", videoId).single(): the row when there is exactly one, no
\* data when there is none or more than one (0: no row found).
SingleRecording(rows) ==
    IF Cardinality(rows) = 1 THEN CHOOSE id \in rows : TRUE ELSE 0

IdleRequest == [pc |-> "idle", existing |-> 0, status |-> 0]

RecStep(kind, id, pc) ==
    [recordings EXCEPT ![kind][id].pc = pc]

RecDone(kind, id, status) ==
    [recordings EXCEPT ![kind][id].pc = "done", ![kind][id].status = status]

\* POST: the checks of the Job and of the form, then the select of the
\* existing recording.
Recording_POST_Find(u) ==
    /\ recordings.uploads[u].pc = "idle"
    /\ \A t \in UploadIds : t < u => recordings.uploads[t].pc # "idle"
    /\ \E form \in Uploads :
        IF UploadError(video.status, form) # NULL
        THEN recordings' = RecDone("uploads", u, 400)
        ELSE LET existing == SingleRecording(recordings.rows)
             IN  recordings' = [recordings EXCEPT
                    !.uploads[u].existing = existing,
                    !.uploads[u].pc = IF existing # 0 THEN "removeBlob"
                                      ELSE "upload"]
    /\ UNCHANGED <<media, prFile, refRun, views, pipelineVars, jobEnv, ingestVars, limiterVars,
                   keyVars>>

\* POST: storage.remove of the existing recording's path.
Recording_POST_RemoveBlob(u) ==
    /\ recordings.uploads[u].pc = "removeBlob"
    /\ recordings' = [RecStep("uploads", u, "deleteRow") EXCEPT !.blob = 0]
    /\ UNCHANGED <<media, prFile, refRun, views, pipelineVars, jobEnv, ingestVars, limiterVars,
                   keyVars>>

\* POST: delete of the existing recording's row.
Recording_POST_DeleteRow(u) ==
    /\ recordings.uploads[u].pc = "deleteRow"
    /\ recordings' = [RecStep("uploads", u, "upload") EXCEPT
           !.rows = @ \ {recordings.uploads[u].existing}]
    /\ UNCHANGED <<media, prFile, refRun, views, pipelineVars, jobEnv, ingestVars, limiterVars,
                   keyVars>>

\* POST: the upload with upsert; 500 when it fails.
Recording_POST_Upload(u) ==
    /\ recordings.uploads[u].pc = "upload"
    /\ \E uploadError \in BOOLEAN :
        recordings' =
            IF uploadError THEN RecDone("uploads", u, 500)
            ELSE [RecStep("uploads", u, "insert") EXCEPT !.blob = u]
    /\ UNCHANGED <<media, prFile, refRun, views, pipelineVars, jobEnv, ingestVars, limiterVars,
                   keyVars>>

\* POST: the insert of the screen_recordings row (the table has no unique
\* constraint on video_id).
Recording_POST_Insert(u) ==
    /\ recordings.uploads[u].pc = "insert"
    /\ \E insertError \in BOOLEAN :
        recordings' =
            IF insertError THEN RecStep("uploads", u, "cleanup")
            ELSE [RecStep("uploads", u, "setUrl") EXCEPT !.rows = @ \cup {u}]
    /\ UNCHANGED <<media, prFile, refRun, views, pipelineVars, jobEnv, ingestVars, limiterVars,
                   keyVars>>

\* POST: update({ screen_recording_url: publicUrl }) of the Job, then the
\* reply.
Recording_POST_SetUrl(u) ==
    /\ recordings.uploads[u].pc = "setUrl"
    /\ recordings' = [RecDone("uploads", u, 200) EXCEPT
           !.screen_recording_url = StoragePath]
    /\ UNCHANGED <<media, prFile, refRun, views, pipelineVars, jobEnv, ingestVars, limiterVars,
                   keyVars>>

\* POST: after a failed insert the uploaded file is removed; 500.
Recording_POST_Cleanup(u) ==
    /\ recordings.uploads[u].pc = "cleanup"
    /\ recordings' = [RecDone("uploads", u, 500) EXCEPT !.blob = 0]
    /\ UNCHANGED <<media, prFile, refRun, views, pipelineVars, jobEnv, ingestVars, limiterVars,
                   keyVars>>

\* DELETE: the select of the recording; 404 without exactly one row.
Recording_DELETE_Find(d) ==
    /\ recordings.deletes[d].pc = "idle"
    /\ \A t \in DeleteIds : t < d => recordings.deletes[t].pc # "idle"
    /\ LET recording == SingleRecording(recordings.rows)
       IN  recordings' =
            IF recording = 0 THEN RecDone("deletes", d, 404)
            ELSE [recordings EXCEPT !.deletes[d].existing = recording,
                                    !.deletes[d].pc = "removeBlob"]
    /\ UNCHANGED <<media, prFile, refRun, views, pipelineVars, jobEnv, ingestVars, limiterVars,
                   keyVars>>

\* DELETE: storage.remove; its error is only logged.
Recording_DELETE_RemoveBlob(d) ==
    /\ recordings.deletes[d].pc = "removeBlob"
    /\ \E storageError \in BOOLEAN :
        recordings' = [RecStep("deletes", d, "deleteRow") EXCEPT
            !.blob = IF storageError THEN @ ELSE 0]
    /\ UNCHANGED <<media, prFile, refRun, views, pipelineVars, jobEnv, ingestVars, limiterVars,
                   keyVars>>

\* DELETE: the delete of the row; 500 when it fails.
Recording_DELETE_DeleteRow(d) ==
    /\ recordings.deletes[d].pc = "deleteRow"
    /\ \E deleteError \in BOOLEAN :
        recordings' =
            IF deleteError THEN RecDone("deletes", d, 500)
            ELSE [RecStep("deletes", d, "clearUrl") EXCEPT
                    !.rows = @ \ {recordings.deletes[d].existing}]
    /\ UNCHANGED <<media, prFile, refRun, views, pipelineVars, jobEnv, ingestVars, limiterVars,
                   keyVars>>

\* DELETE: update({ screen_recording_url: null }) of the Job, then the reply.
Recording_DELETE_ClearUrl(d) ==
    /\ recordings.deletes[d].pc = "clearUrl"
    /\ recordings' = [RecDone("deletes", d, 200) EXCEPT
           !.screen_recording_url = NULL]
    /\ UNCHANGED <<media, prFile, refRun, views, pipelineVars, jobEnv, ingestVars, limiterVars,
                   keyVars>>

\* A Job of any status, without a recording.
InitRecording ==
    /\ JobEnvIdle /\ IngestIdle /\ LimiterIdle /\ KeysIdle
    /\ \E status \in VideoStatus : video = [NewVideo EXCEPT !.status = status]
    /\ video_prs = << >>
    /\ pr_screenshots = 0
    /\ remotionServerUrl = FALSE
    /\ runs = [r \in RunIds |-> IdleRun]
    /\ retries = [q \in RetryIds |-> "idle"]
    /\ dispatched = 0
    /\ delivered = 0
    /\ media = << >>
    /\ prFile = << >>
    /\ refRun = << >>
    /\ views = << >>
    /\ recordings = [rows |-> {}, blob |-> 0, screen_recording_url |-> NULL,
                     uploads |-> [u \in UploadIds |-> IdleRequest],
                     deletes |-> [d \in DeleteIds |-> IdleRequest]]

NextRecording ==
    \/ \E u \in UploadIds : Recording_POST_Find(u)
    \/ \E u \in UploadIds : Recording_POST_RemoveBlob(u)
    \/ \E u \in UploadIds : Recording_POST_DeleteRow(u)
    \/ \E u \in UploadIds : Recording_POST_Upload(u)
    \/ \E u \in UploadIds : Recording_POST_Insert(u)
    \/ \E u \in UploadIds : Recording_POST_SetUrl(u)
    \/ \E u \in UploadIds : Recording_POST_Cleanup(u)
    \/ \E d \in DeleteIds : Recording_DELETE_Find(d)
    \/ \E d \in DeleteIds : Recording_DELETE_RemoveBlob(d)
    \/ \E d \in DeleteIds : Recording_DELETE_DeleteRow(d)
    \/ \E d \in DeleteIds : Recording_DELETE_ClearUrl(d)

SpecRecording == InitRecording /\ [][NextRecording]_vars

\* ------------------------------------- lib/github.ts: the patch of a file
\* truncatePatch(file.patch, 500) in fetchPRData.
SinglePatchLines == 500
\* truncatePatchForMultiPR(file.patch, 200) in formatMultiplePRsForAI.
MultiPatchLines == 200

\* A patch is the sequence of its lines (patch.split("\n")), a line is its
\* number in the patch GitHub returned; no patch is the empty sequence.
\* The appended line "... (n more lines truncated)":
Marker(n) == [more |-> n]

\* Mutant: a patch of exactly maxLines lines is truncated too.
TruncatePatch_Strict(lines, maxLines) ==
    IF Len(lines) < maxLines THEN lines
    ELSE SubSeq(lines, 1, maxLines) \o <<Marker(Len(lines) - maxLines)>>

\* truncatePatch: lines.slice(0, maxLines).join("\n") and one more line.
TruncatePatch(lines, maxLines) ==
    IF Len(lines) <= maxLines THEN lines
    ELSE SubSeq(lines, 1, maxLines) \o <<Marker(Len(lines) - maxLines)>>

\* truncatePatchForMultiPR: the same, on the lines of the patch it is given.
TruncatePatchForMultiPR(lines, maxLines) ==
    IF Len(lines) <= maxLines THEN lines
    ELSE SubSeq(lines, 1, maxLines) \o <<Marker(Len(lines) - maxLines)>>

\* fetchPRData: file.patch ? truncatePatch(file.patch, 500) : undefined.
FetchPRData_Files ==
    /\ prFile.pc = "fetch"
    /\ prFile' = [prFile EXCEPT
           !.stored = IF prFile.patch = << >> THEN << >>
                      ELSE TruncatePatch(prFile.patch, SinglePatchLines),
           !.pc = "fetched"]
    /\ UNCHANGED <<media, recordings, refRun, views, pipelineVars, jobEnv, ingestVars,
                   limiterVars, keyVars>>

\* formatMultiplePRsForAI: the patch of PRData.files, cut again, in the
\* document.
FormatMultiplePRsForAI_Patch ==
    /\ prFile.pc = "fetched"
    /\ prFile' = [prFile EXCEPT
           !.shown = IF prFile.stored = << >> THEN << >>
                     ELSE TruncatePatchForMultiPR(prFile.stored,
                                                  MultiPatchLines),
           !.pc = "formatted"]
    /\ UNCHANGED <<media, recordings, refRun, views, pipelineVars, jobEnv, ingestVars,
                   limiterVars, keyVars>>

\* A file with no patch or with a patch of 1..MaxLines lines.
InitPatch ==
    /\ PipelineIdle /\ JobEnvIdle /\ IngestIdle /\ LimiterIdle /\ KeysIdle
    /\ media = << >>
    /\ recordings = << >>
    /\ refRun = << >>
    /\ views = << >>
    /\ \E L \in 0..MaxLines :
        prFile = [pc |-> "fetch", patch |-> [k \in 1..L |-> k],
                  stored |-> << >>, shown |-> << >>]

NextPatch ==
    \/ FetchPRData_Files
    \/ FormatMultiplePRsForAI_Patch

SpecPatch == InitPatch /\ [][NextPatch]_vars

\* --------------------------- the order of the references in a pipeline run
\* The orders in which select("*, video_prs(*)") may return n rows: as
\* inserted, reversed, and rotated by one.
ReturnOrders(n) ==
    {[k \in 1..n |-> k], [k \in 1..n |-> n + 1 - k],
     [k \in 1..n |-> (k % n) + 1]}

\* fetchPRData of an item: what GitHub holds under that number.
FetchPRData(pr_number) == [title |-> <<"title of", pr_number>>]

\* Mutant: the rows are sorted into a copy, videoPRs keeps the store's order.
SortInPlace_Copy(videoPRs) == videoPRs

\* videoPRs after videoPRs.sort((a, b) => a.display_order - b.display_order):
\* Array.prototype.sort sorts the array itself.
SortInPlace(videoPRs) ==
    [k \in 1..Len(videoPRs) |-> videoPRs[SortedPRs(videoPRs)[k]]]

IdleRefRun ==
    [pc |-> "idle", rows |-> << >>, returned |-> << >>, videoPRs |-> << >>,
     prDataResults |-> << >>, i |-> 0, prDataWithNumbers |-> << >>]

\* processVideo / processVideoWithWebhook, started by the POST that inserted
\* the rows: the select returns the video_prs rows in some order.
ProcessVideo_SelectPRs ==
    /\ refRun.pc = "idle" /\ inserted.runs = 1
    /\ LET n == Len(inserted.video_prs)
           rows == [id \in 1..n |->
                      [id |-> id,
                       pr_number |-> inserted.video_prs[id].pr_number,
                       display_order |-> inserted.video_prs[id].display_order,
                       pr_title |-> << >>]]   \* no title yet
       IN \E order \in ReturnOrders(n) :
            refRun' = [refRun EXCEPT
                !.rows = rows,
                !.returned = order,
                !.videoPRs = [k \in 1..n |-> rows[order[k]]],
                !.pc = "fetch"]
    /\ UNCHANGED <<media, recordings, prFile, views, pipelineVars, jobEnv, ingestVars,
                   limiterVars, keyVars>>

\* sortedPRs = videoPRs.sort(...), then fetchPRData of every sortedPRs[k].
ProcessVideo_FetchSorted ==
    /\ refRun.pc = "fetch"
    /\ LET sortedPRs == [k \in 1..Len(refRun.videoPRs) |->
                           refRun.videoPRs[SortedPRs(refRun.videoPRs)[k]]]
       IN refRun' = [refRun EXCEPT
              !.videoPRs = SortInPlace(refRun.videoPRs),
              !.prDataResults = [k \in 1..Len(sortedPRs) |->
                                    FetchPRData(sortedPRs[k].pr_number)],
              !.i = 1,
              !.pc = "updatePRs"]
    /\ UNCHANGED <<media, recordings, prFile, views, pipelineVars, jobEnv, ingestVars,
                   limiterVars, keyVars>>

\* One turn of the loop: prDataResults[i] to the row .eq("id", videoPRs[i].id).
ProcessVideo_UpdatePRRow ==
    /\ refRun.pc = "updatePRs"
    /\ LET i == refRun.i
           id == refRun.videoPRs[i].id
       IN refRun' = [refRun EXCEPT
              !.rows[id].pr_title = refRun.prDataResults[i].title,
              !.i = i + 1,
              !.pc = IF i < Len(refRun.videoPRs) THEN "updatePRs"
                     ELSE "analyze"]
    /\ UNCHANGED <<media, recordings, prFile, views, pipelineVars, jobEnv, ingestVars,
                   limiterVars, keyVars>>

\* prDataWithNumbers: prDataResults[index] with videoPRs[index].pr_number,
\* the "PR #n" of the document (built for more than one reference).
ProcessVideo_NumberPRs ==
    /\ refRun.pc = "analyze"
    /\ refRun' = [refRun EXCEPT
           !.prDataWithNumbers =
               IF Len(refRun.videoPRs) > 1
               THEN [index \in 1..Len(refRun.prDataResults) |->
                       [title |-> refRun.prDataResults[index].title,
                        prNumber |-> refRun.videoPRs[index].pr_number]]
               ELSE << >>,
           !.pc = "analyzed"]
    /\ UNCHANGED <<media, recordings, prFile, views, pipelineVars, jobEnv, ingestVars,
                   limiterVars, keyVars>>

InitOrder ==
    /\ PipelineIdle /\ JobEnvIdle /\ LimiterIdle /\ KeysIdle
    /\ media = << >>
    /\ recordings = << >>
    /\ prFile = << >>
    /\ refRun = IdleRefRun
    /\ views = << >>
    /\ request \in Requests
    /\ response = NoResponse
    /\ inserted = Nothing

NextOrder ==
    \/ Videos_POST
    \/ V1_Videos_POST
    \/ ProcessVideo_SelectPRs
    \/ ProcessVideo_FetchSorted
    \/ ProcessVideo_UpdatePRRow
    \/ ProcessVideo_NumberPRs

SpecOrder == InitOrder /\ [][NextOrder]_vars

\* ------------------------- one run of either pipeline and the render webhook
\* The Job as POST /api/videos or POST /api/v1/videos left it, its run
\* started, the render collaborator configured or not.
InitComplete ==
    /\ IngestIdle /\ LimiterIdle /\ KeysIdle /\ AssetsIdle
    /\ webhookUrl \in {NULL, "https://hooks.example/x"}
    /\ notifications = << >>
    /\ changeTypes = {"feature"}
    /\ webhookSecret = "s3cret"
    /\ \E n \in 1..MaxRefs : video_prs = [k \in 1..n |-> NewVideoPR(k)]
    /\ remotionServerUrl \in BOOLEAN
    /\ video = NewVideo
    /\ pr_screenshots = 0
    /\ \E kind \in {"create", "v1"} :
        /\ kind = "create" => webhookUrl = NULL
        /\ runs = [r \in RunIds |->
                     IF r = 0
                     THEN [IdleRun EXCEPT
                              !.pc = IF kind = "create" THEN "load"
                                     ELSE "setAnalyzing",
                              !.kind = kind]
                     ELSE IdleRun]
    /\ retries = [q \in RetryIds |-> "idle"]
    /\ dispatched = 0
    /\ delivered = 0

NextComplete ==
    \/ \E r \in RunIds : ProcessVideo(r)
    \/ \E r \in RunIds : ProcessVideoWithWebhook(r)
    \/ \E error \in {NULL, "Render failed"} : RenderComplete(error)

\* An async function goes on whenever the call it awaits has settled.
SpecComplete ==
    /\ InitComplete /\ [][NextComplete]_vars
    /\ WF_vars(\E r \in RunIds : ProcessVideo(r))
    /\ WF_vars(\E r \in RunIds : ProcessVideoWithWebhook(r))

\* ------------------------------------------- the public view of a Job
\* GET /api/share/[shareId] and the share page: both select the complete Job
\* by its share identifier and then update view_count.
ViewIds == 1..MaxViews

IdleView == [pc |-> "idle", route |-> "none", view_count |-> 0]

\* .eq("share_id", shareId).eq("status", "complete").single(): the row as it
\* is now, or not found.
Share_Select(v, route) ==
    /\ views.fetches[v].pc = "idle"
    /\ \A u \in ViewIds : u < v => views.fetches[u].pc # "idle"
    /\ views' = [views EXCEPT !.fetches[v] =
           IF video.status = "complete"
           THEN [pc |-> "selected", route |-> route,
                 view_count |-> views.view_count]
           ELSE [pc |-> "notFound", route |-> route, view_count |-> 0]]
    /\ UNCHANGED <<media, recordings, prFile, refRun, pipelineVars, jobEnv,
                   ingestVars, limiterVars, keyVars>>

\* update({ view_count: video.view_count + 1 }).eq("id", video.id), with the
\* view_count the select returned.
Share_Update(v, route) ==
    /\ views.fetches[v].pc = "selected" /\ views.fetches[v].route = route
    /\ views' = [views EXCEPT
           !.view_count = views.fetches[v].view_count + 1,
           !.fetches[v].pc = "done"]
    /\ UNCHANGED <<media, recordings, prFile, refRun, pipelineVars, jobEnv,
                   ingestVars, limiterVars, keyVars>>

Share_GET_Select(v) == Share_Select(v, "api")
Share_GET_Update(v) == Share_Update(v, "api")
SharePage_Select(v) == Share_Select(v, "page")
SharePage_Update(v) == Share_Update(v, "page")

\* A Job, complete or still rendering, that has been viewed 0 or 5 times.
InitViews ==
    /\ JobEnvIdle /\ IngestIdle /\ LimiterIdle /\ KeysIdle
    /\ media = << >>
    /\ recordings = << >>
    /\ prFile = << >>
    /\ refRun = << >>
    /\ \E status \in {"complete", "rendering"} :
          video = [NewVideo EXCEPT !.status = status]
    /\ video_prs = << >>
    /\ pr_screenshots = 0
    /\ remotionServerUrl = FALSE
    /\ runs = [r \in RunIds |-> IdleRun]
    /\ retries = [q \in RetryIds |-> "idle"]
    /\ dispatched = 0
    /\ delivered = 0
    /\ \E n \in {0, 5} :
          views = [initial |-> n, view_count |-> n,
                   fetches |-> [v \in ViewIds |-> IdleView]]

NextViews ==
    \/ \E v \in ViewIds : Share_GET_Select(v)
    \/ \E v \in ViewIds : Share_GET_Update(v)
    \/ \E v \in ViewIds : SharePage_Select(v)
    \/ \E v \in ViewIds : SharePage_Update(v)

SpecViews == InitViews /\ [][NextViews]_vars

\* ----------------------------------------- GET /api/v1/videos/[id]: status
\* A videos row with its owner.
JobOf(user_id, row) ==
    [f \in DOMAIN row \cup {"user_id"} |->
        IF f = "user_id" THEN user_id ELSE row[f]]

\* The Job in each status, with what the writers of that status leave.
JobStates ==
    {[NewVideo EXCEPT !.status = st] :
        st \in {"pending", "analyzing", "generating_audio", "rendering"}}
      \cup {[NewVideo EXCEPT !.status = "complete", !.video_url = "video",
                             !.completed_at = "now"],
            [NewVideo EXCEPT !.status = "failed",
                             !.error_message = "Failed to fetch PR"]}

\* Mutant: the Job of another owner is answered 403.
V1_Status_Answer_Forbidden(row, rows, authHeader, id) ==
    LET validation == ValidateApiKey(rows, authHeader)
    IN  IF ~validation.valid THEN Reply(401, validation.error)
        ELSE IF id # VideoId THEN Reply(404, "Video not found")
        ELSE IF row.user_id # validation.userId THEN Reply(403, "Forbidden")
        ELSE [status |-> 200, error |-> row.error_message,
              video_id |-> id, job_status |-> row.status,
              video_url |-> row.video_url, completed_at |-> row.completed_at]

\* The answer of GET: 401 for an invalid credential, 404 when .eq("id", id)
\* finds no row, 404 when the row belongs to another owner, the status body
\* otherwise (job_status is the body's status field).
V1_Status_Answer(row, rows, authHeader, id) ==
    LET validation == ValidateApiKey(rows, authHeader)
    IN  IF ~validation.valid THEN Reply(401, validation.error)
        ELSE IF id # VideoId THEN Reply(404, "Video not found")
        ELSE IF row.user_id # validation.userId
        THEN Reply(404, "Video not found")
        ELSE [status |-> 200, error |-> row.error_message,
              video_id |-> id, job_status |-> row.status,
              video_url |-> row.video_url, completed_at |-> row.completed_at]

\* GET: validateApiKey (which issues the update of last_used_at for a valid
\* key), the select, the reply.
V1_Status_GET ==
    /\ request.path = "/api/v1/videos/[id]" /\ response = NoResponse
    /\ LET validation == ValidateApiKey(api_keys, request.authorization)
       IN /\ response' = V1_Status_Answer(video, api_keys,
                                          request.authorization, request.id)
          /\ api_keys' = IF validation.valid
                         THEN [api_keys EXCEPT
                                  ![validation.keyId].last_used_at = now]
                         ELSE api_keys
    /\ UNCHANGED <<request, inserted, keyRequests, pipelineVars, jobEnv,
                   limiterVars, assetVars>>

\* The Job of u1 or u2 in any status; a request with no header, with the key
\* of u1 or of u2, with a revoked or an unknown key, for the Job's id or for
\* an id of no Job.
InitStatus ==
    /\ JobEnvIdle /\ LimiterIdle /\ AssetsIdle
    /\ \E owner \in Users, row \in JobStates : video = JobOf(owner, row)
    /\ video_prs = << >>
    /\ pr_screenshots = 0
    /\ remotionServerUrl = FALSE
    /\ runs = [r \in RunIds |-> IdleRun]
    /\ retries = [q \in RetryIds |-> "idle"]
    /\ dispatched = 0
    /\ delivered = 0
    /\ api_keys = <<NewApiKey(1, "u1", GenerateApiKey(1).hash),
                    NewApiKey(2, "u2", GenerateApiKey(2).hash),
                    [NewApiKey(3, "u1", GenerateApiKey(3).hash)
                        EXCEPT !.revoked_at = 0]>>
    /\ keyRequests = << >>
    /\ \E authorization \in {<< >>} \cup {<<"Bearer ", "ds_", n>> : n \in 1..4},
          id \in {VideoId, "video-2"} :
          request = [path |-> "/api/v1/videos/[id]",
                     authorization |-> authorization, id |-> id]
    /\ response = NoResponse
    /\ inserted = Nothing

NextStatus == V1_Status_GET

SpecStatus == InitStatus /\ [][NextStatus]_vars

\* ============================================================ properties
\* Which handler takes a step: each action moves exactly one of these.
ByRetry == retries' # retries
ByWebhook == delivered' # delivered
ByPipeline == runs' # runs /\ retries' = retries
ByRun(r) == runs'[r] # runs[r] /\ retries' = retries

Terminal == {"complete", "failed"}

Rank(status) ==
    CASE status = "pending" -> 0
      [] status = "analyzing" -> 1
      [] status = "generating_audio" -> 2
      [] status = "rendering" -> 3
      [] status \in Terminal -> 4

ActiveRuns == {r \in RunIds : runs[r].pc \notin {"idle", "requested", "done"}}
StartedRuns == {r \in RunIds : runs[r].pc # "idle"}
AcceptedRetries == {q \in RetryIds : retries[q] = "accepted"}

ClaimC2_AtMostOneActiveRun == Cardinality(ActiveRuns) <= 1

\* C3 (as claimed): every change of status not made by retry moves strictly
\* forward in pending < analyzing < generating_audio < rendering < terminal.
ClaimC3_OnlyRetryMovesBackward ==
    [][(video'.status # video.status /\ ~ByRetry)
          => Rank(video.status) < Rank(video'.status)]_vars

\* C4 (as claimed): a complete or failed Job keeps its status until a retry
\* is accepted.
ClaimC4_TerminalStaysUntilRetry ==
    [][(video.status \in Terminal /\ ~ByRetry)
          => video'.status = video.status]_vars

\* The run is undisturbed: no retry accepted, no webhook delivered, no call
\* raised.
Undisturbed ==
    /\ \A q \in RetryIds : retries[q] \in {"idle", "rejected"}
    /\ delivered = 0
    /\ \A r \in RunIds : runs[r].err = << >>
    /\ video.error_message = NULL

\* C5: for a single-item Job whose calls all succeed and that no retry or
\* webhook touches, the status only ever steps pending -> analyzing ->
\* generating_audio -> rendering (-> complete), so each value is taken once,
\* in that order, none skipped.
TheoremC5_SingleItemStatusChain ==
    [][(Len(video_prs) = 1 /\ Undisturbed' /\ video'.status # video.status)
          => <<video.status, video'.status>> \in
                {<<"pending", "analyzing">>,
                 <<"analyzing", "generating_audio">>,
                 <<"generating_audio", "rendering">>,
                 <<"rendering", "complete">>}]_vars

\* C5 witness: an undisturbed single-item Job has reached rendering and its
\* run has handed over to the render collaborator.
WitnessC5 ==
    /\ Len(video_prs) = 1 /\ Undisturbed
    /\ video.status = "rendering"
    /\ runs[0].pc = "done" /\ dispatched = 1

\* C6: a retry request is accepted exactly when the status it reads is failed
\* or rendering; accepted, it sets status pending and error_message null and
\* requests one pipeline run; rejected, it changes no row and no run is ever
\* requested for it.
TheoremC6_RetryPrecondition ==
    [][\A q \in RetryIds :
          /\ (retries[q] = "idle" /\ retries'[q] # "idle")
                => /\ retries'[q] = "update"
                        <=> video.status \in {"failed", "rendering"}
                   /\ retries'[q] = "rejected"
                        <=> video.status \in {"pending", "analyzing",
                                              "generating_audio", "complete"}
                   /\ video' = video /\ video_prs' = video_prs
                   /\ runs' = runs
          /\ (retries[q] = "update" /\ retries'[q] # "update")
                => /\ retries'[q] = "accepted"
                   /\ video' = [video EXCEPT !.status = "pending",
                                             !.error_message = NULL]
                   /\ runs[q].pc = "idle" /\ runs'[q].pc = "requested"
                   /\ \A r \in RunIds \ {q} : runs'[r] = runs[r]
          /\ retries[q] = "rejected"
                => retries'[q] = "rejected" /\ runs'[q].pc = "idle"]_vars

\* C6 witness: one retry was accepted on a failed Job and reset it, another
\* was rejected.
WitnessC6 ==
    /\ retries[1] = "accepted"
    /\ retries[2] = "rejected"
    /\ video.status = "pending" /\ video.error_message = NULL
    /\ runs[1].pc = "requested"

\* The stages a run has behind it once it has stored the narrative.
PastNarrative(r) == runs[r].pc \in {"audio", "setRendering", "dispatch",
                                   "setComplete"}

SameStagesAsInitialRun(r) ==
    /\ Len(runs[r].prDataResults) = Len(video_prs)
    /\ runs[r].totals
    /\ runs[r].screenshots # NullInt
    /\ runs[r].analysis = IF Len(video_prs) > 1 THEN "multi" ELSE "single"

\* C7 (as claimed): a run started by retry aggregates every linked reference,
\* recomputes the totals, extracts assets and takes the multi-item narrative
\* path exactly when more than one reference is linked.
ClaimC7_RetryRunsSameStages ==
    \A r \in RunIds :
        (runs[r].kind = "process" /\ PastNarrative(r))
            => SameStagesAsInitialRun(r)

\* C8: a call that raises sends the run to its error handler without a write;
\* the handler sets status failed and error_message to the error's message
\* and the run ends there; a finished run never moves again, and runs are
\* started only by creation and by accepted retries.
TheoremC8_FailureIsRecordedAndFinal ==
    /\ [](Cardinality(StartedRuns) <= 1 + Cardinality(AcceptedRetries))
    /\ [][\A r \in RunIds :
            /\ (runs[r].err = << >> /\ runs'[r].err # << >>)
                  => /\ runs'[r].pc = "catch"
                     /\ video' = video /\ video_prs' = video_prs
                     /\ pr_screenshots' = pr_screenshots
                     /\ dispatched' = dispatched
            /\ (runs[r].pc = "catch" /\ runs'[r] # runs[r])
                  => /\ runs'[r].pc = "done"
                     /\ video' = [video EXCEPT
                           !.status = "failed",
                           !.error_message = runs[r].err[1].message]
                     /\ video_prs' = video_prs
                     /\ pr_screenshots' = pr_screenshots
                     /\ dispatched' = dispatched
            /\ runs[r].pc = "done" => runs'[r] = runs[r]]_vars

\* C8 witness: the narrative call of the first run raised while the Job was
\* analyzing; the Job is failed with that message and nothing runs.
WitnessC8 ==
    /\ video.status = "failed"
    /\ video.error_message = "Could not parse JSON from Claude response"
    /\ runs[0].pc = "done"
    /\ ActiveRuns = {}
    /\ video.ai_summary = NULL

Narrated == {"generating_audio", "rendering", "complete"}

\* C9 (as claimed): a multi-item Job whose narrative is persisted carries the
\* unifiedTitle, not the primary item's title, also after a retry.
ClaimC9_MultiItemTitleIsUnified ==
    (Len(video_prs) > 1 /\ video.status \in Narrated)
        => /\ video.pr_title = UnifiedTitle
           /\ video.pr_title # GitHubPR(1).title

RECURSIVE SumOfRows(_, _)
SumOfRows(rows, field) ==
    IF rows = << >> THEN 0
    ELSE rows[1][field] + SumOfRows(Tail(rows), field)

TotalIsSum(total, field) ==
    /\ video[total] # NullInt
    /\ \A k \in 1..Len(video_prs) : video_prs[k][field] # NullInt
    /\ video[total] = SumOfRows(video_prs, field)
    /\ Len(video_prs) = 1 => video[total] = video[field]

\* C10 (as claimed): once the narrative is persisted, each total equals the
\* sum of the values stored on the Job's video_prs rows (the single item's
\* value when there is one row), after any runs, failures and retries.
ClaimC10_TotalsAreSums ==
    video.status \in Narrated
        => /\ TotalIsSum("total_files_changed", "pr_files_changed")
           /\ TotalIsSum("total_additions", "pr_additions")
           /\ TotalIsSum("total_deletions", "pr_deletions")

\* ---------------------------------------------------------------------- C11
FetchErrors == {"Failed to fetch PR", FetchPRComments_Error}

\* The fields a run writes besides status and error_message.
Unwritten(v) == [v EXCEPT !.status = "pending", !.error_message = NULL] = NewVideo

\* C11: when the metadata fetch or the comment fetch of one reference fails,
\* the run's error handler takes the Job from analyzing to failed, and at that
\* point no per-reference metadata, no totals, no screenshot row and no
\* narrative field has been written: the rows are as they were created.
TheoremC11_FetchFailureAbortsAggregation ==
    [][\A r \in RunIds :
          (/\ runs[r].kind = "create" /\ runs[r].pc = "catch"
           /\ runs[r].err[1].message \in FetchErrors
           /\ runs'[r].pc = "done")
          => /\ video.status = "analyzing" /\ video'.status = "failed"
             /\ video'.error_message \in FetchErrors
             /\ Unwritten(video')
             /\ video_prs' = [k \in 1..Len(video_prs) |-> NewVideoPR(k)]
             /\ pr_screenshots' = 0]_vars

\* A Job with two references failed in the aggregation stage.
WitnessC11 ==
    /\ Len(video_prs) >= 2
    /\ runs[0].pc = "done"
    /\ video.status = "failed"
    /\ video.error_message \in FetchErrors
    /\ Cardinality(AcceptedRetries) = 0


\* ---------------------------------------------------------------------- C12
\* What the list of a request is, told from how the model built its URLs.
RefOf(url) ==
    IF url = PullUrl("acme", "app", "7") \/ url = PullUrl("acme", "app", "007")
    THEN <<"acme/app", 7>>
    ELSE IF url = <<"https:", "", "github.com", "acme", "app", "pull", "8">>
    THEN <<"acme/app", 8>>
    ELSE IF url = PullUrl("acme", "web", "9") THEN <<"acme/web", 9>>
    ELSE IF \E n \in 1..Len(Digits) : url = PullUrl("acme", "app", Digits[n])
    THEN <<"acme/app", CHOOSE n \in 1..Len(Digits) :
                           url = PullUrl("acme", "app", Digits[n])>>
    ELSE <<"none", 0>>

SubmittedList ==
    IF request.path = "/api/videos"
    THEN IF request.body.prUrls # << >> THEN request.body.prUrls
         ELSE request.body.prUrl
    ELSE IF request.body.pr_urls # << >> THEN request.body.pr_urls
         ELSE request.body.prUrls

BadList(list) ==
    \/ Len(list) = 0
    \/ Len(list) > 10
    \/ \E i \in 1..Len(list) : RefOf(list[i])[1] = "none"
    \/ \E i, j \in 1..Len(list) : RefOf(list[i])[1] # RefOf(list[j])[1]
    \/ \E i, j \in 1..Len(list) : i # j /\ RefOf(list[i])[2] = RefOf(list[j])[2]

\* C12: on both ingestion paths a submission with no URL, more than 10 URLs,
\* a URL that is no change-request reference, references of two repositories
\* or one item number twice is answered with a 4xx status and inserts no
\* videos row, no video_prs row and starts no run.
TheoremC12_BadSubmissionCreatesNothing ==
    (response # NoResponse /\ BadList(SubmittedList))
        => /\ response.status \in 400..499
           /\ inserted = Nothing

\* One item twice, once with leading zeros, has been rejected on the API-key
\* path.
WitnessC12 ==
    /\ request.path = "/api/v1/videos"
    /\ SubmittedList = <<PullUrl("acme", "app", "7"),
                         PullUrl("acme", "app", "007")>>
    /\ response = Reply(400, "Duplicate PRs are not allowed")
    /\ inserted = Nothing


\* ---------------------------------------------------------------------- C13
\* Nothing is running and no render is outstanding.
Settled ==
    /\ \A r \in RunIds : runs[r].pc \in {"idle", "done"}
    /\ \A q \in RetryIds : retries[q] # "update"
    /\ delivered = dispatched

\* C13: for a Job submitted through the public API with a result webhook
\* URL, once the Job has come to rest in complete or failed, a notification
\* carrying that status has been sent to the URL, and it is the last one.
ClaimC13_TerminalStatusIsNotified ==
    (webhookUrl # NULL /\ Settled /\ video.status \in Terminal)
        => /\ notifications # << >>
           /\ notifications[Len(notifications)].status = video.status


\* ---------------------------------------------------------------------- C14
\* C14: a completion-webhook request whose Authorization header is absent or
\* is not "Bearer <shared secret>" is answered 401 and leaves every field of
\* the Job as it was, whatever the payload and the Job's status.
TheoremC14_UnauthorizedWebhookChangesNothing ==
    [][(request.path = "/api/webhook/render-complete"
        /\ request.authorization # Bearer("s3cret")
        /\ webhookSecret = "s3cret"
        /\ response' # response)
       => /\ response'.status = 401
          /\ video' = video /\ video_prs' = video_prs
          /\ pr_screenshots' = pr_screenshots]_vars

\* A request for the Job with a wrong bearer token and a success payload has
\* been answered 401 while the Job was rendering.
WitnessC14 ==
    /\ request.path = "/api/webhook/render-complete"
    /\ request.authorization = Bearer("wrong")
    /\ request.body = [videoId |-> VideoId, error |-> NULL]
    /\ webhookSecret = "s3cret"
    /\ response.status = 401
    /\ video.status = "rendering"


\* ---------------------------------------------------------------------- C15
RECURSIVE WindowFirst(_, _)
\* The index, in a credential's calls, of the first call of the window call i
\* falls in: a window opened at t1 takes the calls made up to t1 + 60000 ms.
WindowFirst(log, i) ==
    IF i = 1 THEN 1
    ELSE LET first == WindowFirst(log, i - 1)
         IN IF log[i].at <= log[first].at + 60000 THEN first ELSE i

\* C15: for each credential, the k-th call of a window opened at t1 is
\* allowed with remaining = 10 - k for k <= 10, and every further call of the
\* window is denied with remaining = 0 and resetAt = t1 + 60000, which is not
\* before t1.
TheoremC15_FixedWindowQuota ==
    \A c \in KeyIds : \A i \in 1..Len(history[c]) :
        LET log == history[c]
            t1 == log[WindowFirst(log, i)].at
            k == i - WindowFirst(log, i) + 1
            result == log[i].result
        IN IF k <= 10
           THEN result.allowed /\ result.remaining = 10 - k
           ELSE /\ ~result.allowed /\ result.remaining = 0
                /\ result.resetAt = t1 + 60000
                /\ result.resetAt >= t1

\* A credential's window was opened after time 0, took its tenth call at its
\* last millisecond and an eleventh call, which was denied.
WitnessC15 ==
    \E c \in KeyIds :
        /\ Len(history[c]) = 11
        /\ history[c][1].at = 1
        /\ history[c][10].at = 60001
        /\ history[c][10].result.allowed
        /\ ~history[c][11].result.allowed

\* ---------------------------------------------------------------------- C16
\* The allowed calls of a credential made in the 60 seconds from time from.
AllowedIn(log, from) ==
    {i \in 1..Len(log) :
        log[i].result.allowed /\ from <= log[i].at /\ log[i].at < from + 60000}

\* C16: for every credential, at most 10 of its calls made in any interval of
\* 60 seconds are allowed.
ClaimC16_SlidingWindowQuota ==
    \A c \in KeyIds : \A i \in 1..Len(history[c]) :
        Cardinality(AllowedIn(history[c], history[c][i].at)) <= 10

\* ------------------------------------------------------------------ C17
ActiveCount(user_id) == Cardinality(ActiveKeys(api_keys, user_id))

\* C17: in every reachable state, creations of one owner running
\* concurrently included, the owner has at most 10 credentials whose
\* revoked_at is null.
ClaimC17_AtMostTenActive ==
    \A user_id \in Users : ActiveCount(user_id) <= MaxActiveKeys

\* ------------------------------------------------------------------ C18
\* Request c makes its count query in this step.
Counts(c) ==
    /\ keyRequests.creates[c].pc = "idle"
    /\ keyRequests'.creates[c].pc # "idle"

\* Request c makes its insert in this step, and the table takes the row.
Inserts(c) ==
    /\ keyRequests.creates[c].pc = "insert"
    /\ keyRequests'.creates[c].pc = "done"
    /\ keyRequests'.creates[c].status # 500

\* C18: a creation request whose owner has 10 (or more) active credentials is
\* answered 400, adds no row then or later; with fewer it is not rejected, and
\* the insert of a request whose owner has 9 active credentials (one of the 10
\* having been revoked) is answered 201 and leaves the owner with exactly 10.
TheoremC18_CapRejectsAndRevokeReopens ==
    [][\A c \in CreateIds :
        /\ Counts(c) =>
            LET user_id == keyRequests'.creates[c].user_id
            IN  IF ActiveCount(user_id) >= MaxActiveKeys
                THEN /\ keyRequests'.creates[c].pc = "done"
                     /\ keyRequests'.creates[c].status = 400
                     /\ api_keys' = api_keys
                ELSE /\ keyRequests'.creates[c].pc = "insert"
                     /\ api_keys' = api_keys
        /\ keyRequests.creates[c].pc = "done"
            => keyRequests'.creates[c] = keyRequests.creates[c]
        /\ Inserts(c) =>
            LET user_id == keyRequests.creates[c].user_id
            IN  ActiveCount(user_id) = MaxActiveKeys - 1
                    => /\ keyRequests'.creates[c].status = 201
                       /\ Cardinality(ActiveKeys(api_keys', user_id))
                            = MaxActiveKeys
                       /\ Len(api_keys') = Len(api_keys) + 1
      ]_vars

\* The owner had 10 active credentials, the first creation was rejected, one
\* credential was revoked, the second creation was accepted: 10 are active.
WitnessC18 ==
    /\ keyRequests.creates[1] = [pc |-> "done", user_id |-> "u1", status |-> 400]
    /\ keyRequests.creates[2] = [pc |-> "done", user_id |-> "u1", status |-> 201]
    /\ \E i \in DOMAIN api_keys :
        api_keys[i].user_id = "u1" /\ api_keys[i].revoked_at # NullInt
    /\ ActiveCount("u1") = MaxActiveKeys
    /\ Len(api_keys) = MaxActiveKeys + 1

\* ------------------------------------------------------------------ C19
\* The Authorization header that carries the key of this row.
HeaderOf(row, authHeader) ==
    /\ Len(authHeader) = 3
    /\ authHeader[1] = "Bearer "
    /\ HashApiKey(<<authHeader[2], authHeader[3]>>) = row.key_hash

\* Validation v makes its lookup in this step.
LooksUp(v) ==
    /\ keyRequests.validations[v].pc = "idle"
    /\ keyRequests'.validations[v].pc # "idle"

\* C19: once revoked_at of a credential is set, no step changes it; a revoke
\* request leaves the row exactly as it was; a validation of the
\* credential's key that looks the row up from then on returns "API key has
\* been revoked", issues no update of last_used_at and changes no row.
TheoremC19_RevocationIsAbsorbing ==
    [][\A i \in DOMAIN api_keys :
        api_keys[i].revoked_at # NullInt =>
            /\ i \in DOMAIN api_keys'
            /\ api_keys'[i].revoked_at = api_keys[i].revoked_at
            /\ keyRequests'.revokes # keyRequests.revokes
                => api_keys'[i] = api_keys[i]
            /\ \A v \in ValidateIds :
                /\ LooksUp(v)
                /\ HeaderOf(api_keys[i], keyRequests'.validations[v].authHeader)
                => /\ keyRequests'.validations[v].result
                        = Invalid("API key has been revoked")
                   /\ keyRequests'.validations[v].pc = "done"
                   /\ api_keys' = api_keys
      ]_vars

\* A credential revoked at an earlier moment, a second revoke request made
\* since, and a validation of its key refused after the revocation.
WitnessC19 ==
    /\ keyRequests.revokes = 2
    /\ \E i \in DOMAIN api_keys :
        /\ api_keys[i].revoked_at # NullInt
        /\ api_keys[i].revoked_at < now
        /\ \A j \in DOMAIN api_keys :
            j # i => api_keys[j].revoked_at = NullInt
        /\ \E v \in ValidateIds :
            /\ keyRequests.validations[v].pc = "done"
            /\ HeaderOf(api_keys[i], keyRequests.validations[v].authHeader)
            /\ keyRequests.validations[v].at > api_keys[i].revoked_at
            /\ keyRequests.validations[v].result.error
                = "API key has been revoked"
        /\ api_keys[i].last_used_at = NullInt

\* ------------------------------------------------------------------ C20
\* C20: the classification persisted on the Job is always null or one of
\* feature, bugfix, refactor, docs, other: a run whose collaborator returns
\* another value fails and the value is never persisted.
ClaimC20_ClassificationInEnumeration ==
    video.change_type \in {NULL} \cup ChangeTypes

\* ------------------------------------------------------------------ C21
\* C21: with the auto-capture configured, a run (of either ingestion path)
\* whose comment scan accepts no screenshot while a deployment bot's comment
\* holds a preview URL has asked the capture collaborator exactly once, for
\* the first discovered URL and the routes ["/"]; a run whose scan accepted a
\* screenshot has never asked it.
ClaimC21_CaptureRequestedExactlyOnce ==
    (media.pc = "analyze" /\ CaptureConfigured) =>
        LET accepted == ParseScreenshotsFromComments(media.comments)
            previewUrls == ExtractPreviewUrlsFromComments(media.comments)
        IN  /\ (Len(accepted) = 0 /\ Len(previewUrls) > 0)
                => media.captures = <<[url |-> previewUrls[1].url,
                                       routes |-> <<"/">>]>>
            /\ Len(accepted) > 0 => media.captures = << >>

\* ------------------------------------------------------------------ C22
\* C22: the step of a run after the capture fallback (failed or not) and the
\* step that persists the screenshot rows (failed or not) never take the run
\* to its catch block and never change the Job's status: the run goes on to
\* the metadata updates and the narrative synthesis.
TheoremC22_MediaFailuresAreNotFatal ==
    [][\A r \in RunIds :
        (/\ runs[r].kind = "create"
         /\ runs[r].pc \in {"capture", "storeScreenshots"}
         /\ runs'[r] # runs[r])
        => /\ runs'[r].pc =
                IF runs[r].pc = "capture" THEN "updatePRs" ELSE "analyze"
           /\ video' = video
      ]_vars

\* The insert of the screenshot rows failed (none is stored although the run
\* holds some) and the run is at the narrative synthesis, the Job analyzing.
WitnessC22 ==
    \E r \in RunIds :
        /\ runs[r].kind = "create" /\ runs[r].pc = "analyze"
        /\ runs[r].screenshots > 0
        /\ pr_screenshots = 0
        /\ video.status = "analyzing"

\* ------------------------------------------------------------------ C23
\* C23: the screenshots a run collects, from the comment scan or from the
\* capture fallback, are never more than 6, and the rows stored for them
\* carry the display orders 0..n-1 in the order they were collected.
ClaimC23_AtMostSixScreenshots ==
    /\ Len(media.screenshots) <= MAX_SCREENSHOTS
    /\ \A k \in DOMAIN media.stored :
        /\ media.stored[k].display_order = k - 1
        /\ media.stored[k].url = media.screenshots[k].url

\* ------------------------------------------------------------------ C27
\* C27: once the comments are scanned, the image candidates extracted from a
\* comment hold each URL at most once, whatever the syntaxes it occurs in.
ClaimC27_CandidatesAreDeduplicated ==
    media.pc # "parse" =>
        \A c \in DOMAIN media.comments :
            LET images == ExtractImagesFromMarkdown(media.comments[c].body)
            IN  \A j, k \in DOMAIN images :
                    images[j].url = images[k].url => j = k

\* ------------------------------------------------------------------ C24
\* C24: after any sequence of uploads and deletions for the Job, concurrent
\* uploads included, at most one screen_recordings row exists for it.
ClaimC24_AtMostOneRecording == Cardinality(recordings.rows) <= 1

\* ------------------------------------------------------------------ C25
\* C25: the patch fetchPRData stores for a patch of L lines is the patch
\* itself when L <= 500, and otherwise its first 500 lines followed by one
\* marker line for L - 500 more lines: 501 lines.
TheoremC25_SinglePatchTruncation ==
    (prFile.pc # "fetch" /\ prFile.patch # << >>) =>
        LET L == Len(prFile.patch)
        IN  IF L <= 500 THEN prFile.stored = prFile.patch
            ELSE /\ Len(prFile.stored) = 501
                 /\ SubSeq(prFile.stored, 1, 500) = SubSeq(prFile.patch, 1, 500)
                 /\ prFile.stored[501] = Marker(L - 500)

\* A 600-line patch stored as 500 lines and the marker for 100 more.
WitnessC25 ==
    /\ prFile.pc = "fetched"
    /\ Len(prFile.patch) = 600
    /\ Len(prFile.stored) = 501
    /\ prFile.stored[501] = Marker(100)

\* ------------------------------------------------------------------ C26
\* C26: in the multi-item document the patch of a file whose original patch
\* has L lines is the patch itself when L <= 200, and otherwise its first 200
\* lines followed by one marker for L - 200 lines, for every L.
ClaimC26_MultiPatchTruncation ==
    (prFile.pc = "formatted" /\ prFile.patch # << >>) =>
        LET L == Len(prFile.patch)
        IN  IF L <= 200 THEN prFile.shown = prFile.patch
            ELSE /\ Len(prFile.shown) = 201
                 /\ SubSeq(prFile.shown, 1, 200) = SubSeq(prFile.patch, 1, 200)
                 /\ prFile.shown[201] = Marker(L - 200)

\* ------------------------------------------------------------------ C28
\* The list of URLs the handler read from the body.
SubmittedUrls ==
    IF request.path = "/api/videos"
    THEN IF request.body.prUrls # << >> THEN request.body.prUrls
         ELSE request.body.prUrl
    ELSE IF request.body.pr_urls # << >> THEN request.body.pr_urls
         ELSE request.body.prUrls

\* The row with the i-th smallest display_order, counted from 1.
RowAt(i) == refRun.rows[SortedPRs(refRun.rows)[i]]

\* C28: the i-th submitted URL is stored with display_order i (from 0), and
\* in the run the i-th fetched metadata result is written to, and numbered in
\* the document as, the reference with the i-th smallest display_order, in
\* whatever order the store returned the rows.
TheoremC28_InputOrderIsDisplayOrder ==
    /\ \A i \in 1..Len(inserted.video_prs) :
         /\ inserted.video_prs[i].display_order = i - 1
         /\ inserted.video_prs[i].pr_number = ParsePRUrl(SubmittedUrls[i]).number
    /\ refRun.pc \in {"updatePRs", "analyze", "analyzed"} =>
         \A i \in 1..Len(refRun.prDataResults) :
            /\ refRun.prDataResults[i] = FetchPRData(RowAt(i).pr_number)
            /\ (i < refRun.i) =>
                  RowAt(i).pr_title = refRun.prDataResults[i].title
    /\ refRun.pc = "analyzed" =>
         \A i \in 1..Len(refRun.prDataWithNumbers) :
            /\ refRun.prDataWithNumbers[i].prNumber = RowAt(i).pr_number
            /\ refRun.prDataWithNumbers[i].title = refRun.prDataResults[i].title

\* Two references returned by the store in reverse order, written and
\* numbered.
WitnessC28 ==
    /\ refRun.pc = "analyzed"
    /\ refRun.returned = <<2, 1>>
    /\ Len(refRun.prDataWithNumbers) = 2
    /\ refRun.rows[1].pr_title = <<"title of", 7>>
    /\ refRun.rows[2].pr_title = <<"title of", 8>>
    /\ refRun.prDataWithNumbers[1].prNumber = 7

\* ------------------------------------------------------------------ C29
\* C29: in every run the write that persists the metadata leaves the status
\* at analyzing, the write that persists the narrative fields leaves the
\* status at analyzing (they are there before the stage ends), and the
\* summary is there before the audio location is written.
ClaimC29_IntermediateResultsBeforeStageEnd ==
    [][/\ (video.pr_files_changed = NullInt
              /\ video'.pr_files_changed # NullInt)
           => video'.status = "analyzing"
       /\ (video.ai_summary = NULL /\ video'.ai_summary # NULL)
           => video'.status = "analyzing"
       /\ (video.audio_url = NULL /\ video'.audio_url # NULL)
           => video.ai_summary # NULL]_vars

\* ------------------------------------------------------------------ C30
\* C30: with no render collaborator configured, a run whose voice synthesis
\* and audio upload succeeded goes on to end with the Job complete and
\* completed_at set, no completion webhook having been delivered; once it
\* has ended the Job is not at rendering.
TheoremC30_NoRendererEndsComplete ==
    /\ (~remotionServerUrl /\ runs[0].pc = "setRendering")
          ~> (/\ runs[0].pc = "done"
              /\ video.status = "complete"
              /\ video.completed_at # NULL
              /\ dispatched = 0 /\ delivered = 0)
    /\ [](~remotionServerUrl /\ runs[0].pc = "done" /\ video.audio_url # NULL
            => video.status = "complete" /\ video.completed_at # NULL)

\* The API-key run ended without a renderer: complete, and the caller told.
WitnessC30 ==
    /\ ~remotionServerUrl
    /\ runs[0].pc = "done"
    /\ video.audio_url # NULL
    /\ video.status = "complete" /\ video.completed_at # NULL
    /\ video.video_url = NULL
    /\ delivered = 0
    /\ Len(notifications) = 1 /\ notifications[1].status = "complete"

\* ------------------------------------------------------------------ C31
\* The Error thrown for a non-ok answer of the render collaborator; the
\* message stands for "Failed to start render: " and the answer's text.
RenderDispatchError == <<Thrown("Failed to start render")>>

\* C31: a dispatch the render collaborator rejects takes the run to its
\* error handler with that error, and from there the run goes on to end with
\* the Job failed, error_message the error's message: not at rendering.
TheoremC31_RejectedDispatchFailsTheJob ==
    /\ [][(runs[0].pc = "dispatch" /\ runs'[0] # runs[0]
             /\ dispatched' = dispatched)
            => /\ runs'[0].pc = "catch"
               /\ runs'[0].err = RenderDispatchError
               /\ video' = video]_vars
    /\ (runs[0].pc = "catch" /\ runs[0].err = RenderDispatchError)
          ~> (/\ runs[0].pc = "done"
              /\ video.status = "failed"
              /\ video.error_message = "Failed to start render")

\* A run without result webhook ended after a rejected dispatch: failed,
\* nothing dispatched, the audio written before.
WitnessC31 ==
    /\ remotionServerUrl
    /\ runs[0].pc = "done"
    /\ dispatched = 0
    /\ video.audio_url # NULL
    /\ video.status = "failed"
    /\ video.error_message = "Failed to start render"
    /\ webhookUrl = NULL

\* ------------------------------------------------------------------ C32
\* C32: every step that sets the Job's status to complete is taken on a Job
\* whose status is rendering.
ClaimC32_CompleteOnlyFromRendering ==
    [][(video'.status = "complete" /\ video' # video)
          => video.status = "rendering"]_vars

\* ------------------------------------------------------------------ C33
\* C33: while the Job is pending or analyzing its summary, script,
\* classification, audio location and video location are all null.
ClaimC33_NoArtifactWhileQueuedOrAnalyzing ==
    video.status \in {"pending", "analyzing"} =>
        /\ video.ai_summary = NULL
        /\ video.ai_script = NULL
        /\ video.change_type = NULL
        /\ video.audio_url = NULL
        /\ video.video_url = NULL

\* ------------------------------------------------------------------ C34
\* C34: a complete Job has no error_message and a failed Job has no
\* completed_at.
ClaimC34_TerminalFieldsAreExclusive ==
    /\ video.status = "complete" => video.error_message = NULL
    /\ video.status = "failed" => video.completed_at = NULL

\* ------------------------------------------------------------------ C35
\* C35: once the public fetches of the complete Job have all finished, its
\* view_count is its initial value plus the number of those fetches.
ClaimC35_EveryViewIsCounted ==
    (\A v \in ViewIds : views.fetches[v].pc \in {"idle", "done", "notFound"})
        => views.view_count = views.initial
               + Cardinality({v \in ViewIds : views.fetches[v].pc = "done"})

\* ------------------------------------------------------------------ C36
\* No upload or delete request is in progress.
RecordingsQuiet ==
    /\ \A u \in UploadIds : recordings.uploads[u].pc \in {"idle", "done"}
    /\ \A d \in DeleteIds : recordings.deletes[d].pc \in {"idle", "done"}

\* C36: after an upload that found a recording and ended with an error, the
\* row and the blob it found still exist; and (between requests) the Job's
\* screen_recording_url is set exactly when a recording row exists.
ClaimC36_FailedUploadKeepsRecording ==
    /\ \A u \in UploadIds :
          (/\ recordings.uploads[u].pc = "done"
           /\ recordings.uploads[u].status = 500
           /\ recordings.uploads[u].existing # 0
           /\ \A d \in DeleteIds : recordings.deletes[d].pc = "idle")
          => /\ recordings.uploads[u].existing \in recordings.rows
             /\ recordings.blob # 0
    /\ RecordingsQuiet =>
          (recordings.screen_recording_url # NULL <=> recordings.rows # {})

\* ------------------------------------------------------------------ C37
\* C37: once a run is past its aggregation stage (the Job is generating
\* audio, rendering or complete) the Job's screenshot_count is the number of
\* screenshot rows stored for it.
ClaimC37_ScreenshotCountIsRowCount ==
    video.status \in {"generating_audio", "rendering", "complete"}
        => video.screenshot_count = pr_screenshots

\* ------------------------------------------------------------------ C38
\* C38: at every check the answer is the answer the swept map gives, the map
\* after the check holds the same unexpired windows as after the check made
\* on the swept map without a sweep, and no window whose resetAt is not past
\* is removed. Maps with the same unexpired windows keep them the same as
\* time goes on, so the answers are the same wherever the sweep runs.
TheoremC38_SweepIsUnobservable ==
    [][\A keyId \in KeyIds :
          history'[keyId] # history[keyId] =>
            LET swept == CleanUp(rateLimitStore)
            IN /\ response' = RateLimitResult(swept, keyId, RateLimit, WindowMs)
               /\ CleanUp(rateLimitStore') =
                     CleanUp(StoreAfterCheck(swept, keyId, RateLimit, WindowMs,
                                             FALSE))
               /\ \A k \in DOMAIN rateLimitStore :
                     ~(rateLimitStore[k].resetAt < now)
                        => k \in DOMAIN rateLimitStore']_vars

\* A sweep removed the expired window of the other credential, and a window
\* that ends now was kept.
WitnessC38 ==
    /\ "key-1" \notin DOMAIN rateLimitStore
    /\ Len(history["key-1"]) > 0
    /\ "key-2" \in DOMAIN rateLimitStore
    /\ Len(history["key-2"]) > 1
    /\ \E i \in 1..Len(history["key-2"]) :
          history["key-2"][i].result.resetAt = history["key-2"][i].at
              /\ history["key-2"][i].result.remaining < RateLimit - 1

\* ------------------------------------------------------------------ C39
\* The request carries a valid credential of an owner other than the Job's.
ForeignRequest ==
    /\ request.id = VideoId
    /\ ValidateApiKey(api_keys, request.authorization).valid
    /\ ValidateApiKey(api_keys, request.authorization).userId # video.user_id

\* C39: the answer to a valid credential asking for the Job of another owner
\* is the answer the same credential gets for an identifier of no Job, and
\* it is that answer whatever the state of the Job.
TheoremC39_ForeignJobIsNotFound ==
    (response # NoResponse /\ ForeignRequest) =>
        /\ response = V1_Status_Answer(video, api_keys, request.authorization,
                                       "video-2")
        /\ \A row \in JobStates :
              response = V1_Status_Answer(JobOf(video.user_id, row), api_keys,
                                          request.authorization, VideoId)

\* u1 asked for the complete Job of u2 and was told 404.
WitnessC39 ==
    /\ ForeignRequest
    /\ video.user_id = "u2"
    /\ video.status = "complete" /\ video.video_url # NULL
    /\ response = Reply(404, "Video not found")

\* ------------------------------------------------------------------ C40
\* C40: the started run eventually ends; the step that ends it leaves the
\* Job failed, complete, or rendering with the dispatch just accepted; and
\* after it has ended the Job is never pending, analyzing or generating
\* audio.
TheoremC40_RunTerminatesInAFinalWrite ==
    /\ <>(runs[0].pc = "done")
    /\ [][(runs[0].pc # "done" /\ runs'[0].pc = "done")
            => \/ video'.status \in {"failed", "complete"}
               \/ /\ video'.status = "rendering"
                  /\ dispatched' = dispatched + 1]_vars
    /\ [](runs[0].pc = "done"
            => video.status \notin {"pending", "analyzing", "generating_audio"})

\* The run ended with the Job rendering and its dispatch accepted, the
\* render still under way.
WitnessC40 ==
    /\ runs[0].pc = "done"
    /\ video.status = "rendering"
    /\ dispatched = 1 /\ delivered = 0

====
